---- MODULE Spec2Model ----
(***************************************************************************)
(* A model of the Susi social-media agent's orchestration core:           *)
(*   - the retry decorator of susi/retry_utils.py (SpecRetry),            *)
(*   - the Excel-driven content pipeline process_excel_topics of          *)
(*     susi/main.py over the sheet of susi/excel_monitor.py (SpecExcel).  *)
(***************************************************************************)
EXTENDS Integers, Sequences, FiniteSets, TLC

(***************************************************************************)
(* Bounds of the model.                                                    *)
(***************************************************************************)
\* retry(): tries ranges over -1..MaxTries, delay over 0..MaxDelay,
\* backoff over 0..MaxBackoff.
MaxTries == 3
MaxDelay == 2
MaxBackoff == 2
\* The sheet has at most MaxRows data rows, of which at most MaxLive are
\* unprocessed rows with content.
MaxRows == 3
MaxLive == 2

\* Image pipeline: the images in the OneDrive folder and the polling cycles
\* of one run.
MaxImages == 2
MaxCycles == 2

\* Schedule mode: the calendar slots the scheduler loop lives through.
MaxTicks == 9

\* email_utils.py, the tenacity decorator of _send_error_email_with_retry:
\* stop_after_attempt(3), wait_exponential(multiplier=1, min=2, max=10).
StopAfterAttempt == 3
WaitMultiplier == 1
WaitMin == 2
WaitMax == 10

\* services/s3.py, the decorator of upload_file_to_s3:
\* @retry(Exception, tries=3, delay=2, backoff=2).
S3Tries == 3
S3Delay == 2
S3Backoff == 2

\* excel_monitor.get_excel_rows: the data rows of the usedRange answer.
MaxValues == 3

\* main's polling loop: the calls of process_excel_topics in one run.
MaxContentCycles == 3

\* instagram.py: wait_for_media_ready called on its own.
MaxWait == 4
MaxPollInterval == 2

\* instagram.py, the decorator of post_to_instagram (tries=3) and the
\* arguments of its call of wait_for_media_ready (max_wait=60,
\* poll_interval=5).
IgTries == 3
PostMaxWait == 60
PostPollInterval == 5

VARIABLES
    \* ---- retry_utils.retry / f_retry ----
    tries,      \* decorator argument `tries`
    delay,      \* decorator argument `delay`
    backoff,    \* decorator argument `backoff`
    pattern,    \* what the wrapped f does on its i-th invocation
    mtries,     \* f_retry local
    mdelay,     \* f_retry local
    rpc,        \* position of f_retry: "idle", "loop", "done"
    ncalls,     \* invocations of f made by this call of f_retry
    sleeps,     \* arguments of time.sleep, in order
    result,     \* how f_retry ended: <<"none",0>>, <<"return",i>>, <<"raise",i>>
    \* ---- excel_monitor: the worksheet ----
    sheet,      \* the data rows of the worksheet (the header row left out)
    \* ---- main.process_excel_topics ----
    pc,         \* position of process_excel_topics
    rows,       \* local `rows`: what get_excel_rows returned
    idx,        \* loop variable `idx` (0-based)
    content,    \* local `content`
    target_group,       \* local `target_group`
    news_articles,      \* local `news_articles`
    caption,            \* local `caption`
    linkedin_post,      \* local `linkedin_post`
    linkedin_success,   \* local `linkedin_success`
    \* ---- observation of the collaborators' calls ----
    origin,     \* origin[i+1]: the sheet row that fetched row i was read from
    log,        \* the calls made while handling the current row
    hist,       \* one entry per row handled so far in this cycle
    \* ---- the OneDrive folder, the local disk ----
    folder,     \* ids of the images in the watched OneDrive folder
    files,      \* ids of the images whose downloaded file is on the disk
    \* ---- main.main, polling mode ----
    ipc,        \* position of main / process_images
    seen_ids,   \* main's `seen_ids`
    listed,     \* main's `images`: what list_onedrive_images returned
    cyc,        \* iterations of the polling loop started so far
    \* ---- main.process_images ----
    images,     \* parameter `images` after the filter of line 233
    ipos,       \* position of `item` in images (1-based, 0 before the loop)
    local_path, \* local `local_path`
    icaption,   \* local `caption`
    s3_url,     \* local `s3_url`
    \* ---- observation ----
    ilog,       \* the calls made for the current item
    seen0,      \* seen_ids as it was when the cycle started
    posted,     \* per image: how often poster.post returned success
    retryable,  \* images whose publish failed in this run
    steps,      \* what the current iteration of the polling loop has done
    \* ---- main: configuration and schedule mode ----
    trigger_mode, \* config['trigger_mode']
    img_day,    \* main's `img_day`
    img_time,   \* main's `img_time`
    post_day,   \* main's `post_day`
    post_time,  \* main's `post_time`
    spc,        \* position of main
    job_func,   \* per Job object of DAY_MAP: its job_func
    at_time,    \* per Job object of DAY_MAP: its at_time
    next_run,   \* per Job object of DAY_MAP: its next_run (a slot number)
    jobs,       \* schedule.default_scheduler.jobs
    runnable,   \* run_pending: the jobs it still has to run
    now,        \* the calendar slot the clock is in (0 at startup)
    ran,        \* per slot: the pipelines the scheduler called in it
    notified,   \* whether a notification has been sent
    error,      \* the error that left main, or None
    \* ---- main.send_error / send_confirmation and email_utils ----
    provider,   \* config['email'].get('provider', '').lower()
    nkind,      \* the gateway function called: "send_error", "send_confirmation"
    gmail_out,  \* what send_gmail does when it is called
    smtp_out,   \* what the i-th SMTP session does
    npc,        \* position of the gateway call
    attempts,   \* the transport calls made, with their outcomes
    waits,      \* the waits of the tenacity wrapper, in order
    nlog,       \* the messages logged
    nresult,    \* how the gateway call ended for its caller
    \* ---- services/s3.upload_file_to_s3 ----
    s3_answers, \* what boto3 does in the i-th invocation of the function
    \* ---- excel_monitor.get_excel_rows ----
    values,     \* resp.json()["values"]
    fetched,    \* the list get_excel_rows returned
    fpc,        \* position of the call
    \* ---- instagram.wait_for_media_ready / post_to_instagram ----
    entry,      \* the function called from outside
    max_wait,   \* parameter `max_wait`
    poll_interval, \* parameter `poll_interval`
    waited,     \* local `waited`
    polls,      \* status requests made by this call of wait_for_media_ready
    last_status, \* what the last status request gave
    wres,       \* what wait_for_media_ready returned
    qpc,        \* position of the call
    attempt,    \* invocations of post_to_instagram made by its retry wrapper
    created,    \* this invocation got a media object with an id
    ready,      \* this invocation's wait_for_media_ready returned True
    published,  \* what this invocation's publish request gave
    pres,       \* how the call of post_to_instagram ended
    \* ---- main's polling loop around process_excel_topics ----
    ccyc,       \* calls of process_excel_topics that have returned
    done_rows   \* sheet rows for which an earlier call sent a success notification

retryVars == <<tries, delay, backoff, pattern, mtries, mdelay, rpc, ncalls,
               sleeps, result>>

excelVars == <<sheet, pc, rows, idx, content, target_group, news_articles,
               caption, linkedin_post, linkedin_success, origin, log, hist>>

imageVars == <<folder, files, ipc, seen_ids, listed, cyc, images, ipos,
               local_path, icaption, s3_url, ilog, seen0, posted, retryable,
               steps>>

scheduleVars == <<trigger_mode, img_day, img_time, post_day, post_time, spc,
                  job_func, at_time, next_run, jobs, runnable, now, ran,
                  notified, error>>

notifyVars == <<provider, nkind, gmail_out, smtp_out, npc, attempts, waits,
                nlog, nresult>>

uploadVars == <<s3_answers>>

fetchVars == <<values, fetched, fpc>>

igVars == <<entry, max_wait, poll_interval, waited, polls, last_status, wres,
            qpc, attempt, created, ready, published, pres>>

cycleVars == <<ccyc, done_rows>>

auxVars == <<fetchVars, igVars, cycleVars>>

restVars == <<scheduleVars, notifyVars, uploadVars, auxVars>>

vars == <<retryVars, excelVars, imageVars, restVars>>

(***************************************************************************)
(* Values shared by the Excel pipeline.                                    *)
(***************************************************************************)

\* Python's None, and how an f-string renders a value.
None == "<None>"
Fmt(x) == IF x = None THEN "None" ELSE x

\* Python truthiness of a str-or-None value.
Truthy(x) == x # None /\ x # ""

\* `a or b` on str-or-None values.
Or(a, b) == IF Truthy(a) THEN a ELSE b

\* The calls made for one row, by callee, each in call order.
EmptyLog ==
    [ news          |-> <<>>,   \* fetch_news_articles(content, target_group)
      newsOut       |-> <<>>,   \* what each call returned or "raise"
      igGen         |-> <<>>,   \* generate_instagram_post(content, tg, articles)
      igGenOut      |-> <<>>,
      igWrite       |-> <<>>,   \* write_instagram_post(idx, caption)
      igWriteOut    |-> <<>>,
      liGen         |-> <<>>,   \* generate_linkedin_post(content, tg, articles)
      liGenOut      |-> <<>>,
      liWrite       |-> <<>>,   \* write_linkedin_post(idx, linkedin_post)
      liWriteOut    |-> <<>>,
      mark          |-> <<>>,   \* mark_row_processed(idx)
      markOut       |-> <<>>,
      errors        |-> <<>>,   \* send_error subjects
      confirmations |-> <<>>,   \* send_confirmation subjects
      confirmOut    |-> <<>>,
      post          |-> <<>> ]  \* poster.post(...)

\* process_excel_topics is not running.
ExcelIdle ==
    /\ sheet = <<>>
    /\ pc = "off"
    /\ rows = <<>>
    /\ idx = 0
    /\ content = None
    /\ target_group = None
    /\ news_articles = <<>>
    /\ caption = None
    /\ linkedin_post = None
    /\ linkedin_success = FALSE
    /\ origin = <<>>
    /\ log = EmptyLog
    /\ hist = <<>>

\* The calls made for one image, by callee, each in call order.
EmptyImageLog ==
    [ download      |-> <<>>,   \* download_onedrive_image(item)
      downloadOut   |-> <<>>,
      meta          |-> <<>>,   \* extract_metadata(local_path)
      metaOut       |-> <<>>,
      render        |-> <<>>,   \* generate_post_text(metadata, template)
      renderOut     |-> <<>>,
      upload        |-> <<>>,   \* upload_file_to_s3(file_path=local_path, ...)
      uploadOut     |-> <<>>,
      post          |-> <<>>,   \* poster.post(s3_url, caption, config)
      postOut       |-> <<>>,
      move          |-> <<>>,   \* move_onedrive_file_to_processed(item, config)
      moveOut       |-> <<>>,
      remove        |-> <<>>,   \* os.remove(local_path)
      removeOut     |-> <<>>,
      errors        |-> <<>>,   \* send_error subjects
      confirmations |-> <<>>,   \* send_confirmation subjects
      order         |-> <<>> ]  \* the callees, in the order they were called

\* main has not been started in schedule mode.
ScheduleIdle ==
    /\ trigger_mode = "polling"
    /\ img_day = "tuesday"
    /\ img_time = "09:00"
    /\ post_day = "tuesday"
    /\ post_time = "09:00"
    /\ spc = "off"
    /\ job_func = <<>>
    /\ at_time = <<>>
    /\ next_run = <<>>
    /\ jobs = <<>>
    /\ runnable = <<>>
    /\ now = 0
    /\ ran = <<>>
    /\ notified = FALSE
    /\ error = "<None>"

\* No gateway call is under way.
NotifyIdle ==
    /\ provider = ""
    /\ nkind = "send_error"
    /\ gmail_out = "ok"
    /\ smtp_out = <<>>
    /\ npc = "off"
    /\ attempts = <<>>
    /\ waits = <<>>
    /\ nlog = <<>>
    /\ nresult = "none"

\* upload_file_to_s3 is not being called.
UploadIdle == s3_answers = <<>>

\* get_excel_rows is not being called on its own.
FetchIdle ==
    /\ values = <<>>
    /\ fetched = <<>>
    /\ fpc = "off"

\* No function of instagram.py is being called.
IgIdle ==
    /\ entry = "none"
    /\ max_wait = 0
    /\ poll_interval = 0
    /\ waited = 0
    /\ polls = 0
    /\ last_status = "none"
    /\ wres = "none"
    /\ qpc = "off"
    /\ attempt = 0
    /\ created = FALSE
    /\ ready = FALSE
    /\ published = "none"
    /\ pres = "none"

\* No call of process_excel_topics has returned.
CycleIdle ==
    /\ ccyc = 0
    /\ done_rows = {}

AuxIdle == FetchIdle /\ IgIdle /\ CycleIdle

RestIdle == ScheduleIdle /\ NotifyIdle /\ UploadIdle /\ AuxIdle

\* main is not running.
ImagesIdle ==
    /\ folder = {}
    /\ files = {}
    /\ ipc = "off"
    /\ seen_ids = {}
    /\ listed = <<>>
    /\ cyc = 0
    /\ images = <<>>
    /\ ipos = 0
    /\ local_path = None
    /\ icaption = None
    /\ s3_url = None
    /\ ilog = EmptyImageLog
    /\ seen0 = {}
    /\ posted = <<>>
    /\ retryable = {}
    /\ steps = <<>>

(***************************************************************************)
(* retry_utils.py                                                          *)
(***************************************************************************)

\* The i-th invocation of f either returns a value (identified with i, so
\* that two invocations never return the same value), raises an error that
\* matches ExceptionToCheck, or raises one that does not.  The error raised
\* by invocation i is identified with i as well.
FOutcomes == {"ok", "retryable", "other"}

TriesValues == (0 - 1)..MaxTries
PatternLen == MaxTries + 1

\* A loop test that is off by one (one attempt too many).
WhileGuardOffByOne(m) == m > 0

\* `while mtries > 1`
WhileGuard(m) == m > 1

\* A handler that catches every error, not only ExceptionToCheck.
CaughtAny(o) == o # "ok"

\* `except ExceptionToCheck as e`
Caught(o) == o = "retryable"

\* A backoff that adds instead of multiplying.
NextDelayAdditive(d, b) == d + b

\* `mdelay *= backoff`
NextDelay(d, b) == d * b

RetryIdle ==
    /\ tries = 0 /\ delay = 0 /\ backoff = 0
    /\ pattern = <<>>
    /\ mtries = 0 /\ mdelay = 0
    /\ rpc = "off"
    /\ ncalls = 0
    /\ sleeps = <<>>
    /\ result = <<"none", 0>>

InitRetry ==
    /\ ImagesIdle
    /\ ExcelIdle
    /\ RestIdle
    /\ tries \in TriesValues
    /\ delay \in 0..MaxDelay
    /\ backoff \in 0..MaxBackoff
    /\ pattern \in [1..PatternLen -> FOutcomes]
    /\ mtries = 0 /\ mdelay = 0
    /\ rpc = "idle"
    /\ ncalls = 0
    /\ sleeps = <<>>
    /\ result = <<"none", 0>>

\* `mtries, mdelay = tries, delay`
f_retry_enter ==
    /\ rpc = "idle"
    /\ mtries' = tries
    /\ mdelay' = delay
    /\ rpc' = "loop"
    /\ UNCHANGED <<tries, delay, backoff, pattern, ncalls, sleeps, result>>
    /\ UNCHANGED <<excelVars, imageVars, restVars>>

\* One iteration of the while loop: try f; on a caught error log, sleep,
\* decrement mtries and scale mdelay.
f_retry_attempt ==
    /\ rpc = "loop"
    /\ WhileGuard(mtries)
    /\ ncalls' = ncalls + 1
    /\ LET o == pattern[ncalls + 1] IN
         IF o = "ok"
         THEN /\ result' = <<"return", ncalls + 1>>
              /\ rpc' = "done"
              /\ UNCHANGED <<mtries, mdelay, sleeps>>
         ELSE IF Caught(o)
         THEN /\ sleeps' = Append(sleeps, mdelay)
              /\ mtries' = mtries - 1
              /\ mdelay' = NextDelay(mdelay, backoff)
              /\ UNCHANGED <<rpc, result>>
         ELSE /\ result' = <<"raise", ncalls + 1>>
              /\ rpc' = "done"
              /\ UNCHANGED <<mtries, mdelay, sleeps>>
    /\ UNCHANGED <<tries, delay, backoff, pattern>>
    /\ UNCHANGED <<excelVars, imageVars, restVars>>

\* `return f(*args, **kwargs)` after the loop: the final attempt, whose
\* error (of any type) propagates.
f_retry_final ==
    /\ rpc = "loop"
    /\ ~WhileGuard(mtries)
    /\ ncalls' = ncalls + 1
    /\ result' = IF pattern[ncalls + 1] = "ok"
                 THEN <<"return", ncalls + 1>>
                 ELSE <<"raise", ncalls + 1>>
    /\ rpc' = "done"
    /\ UNCHANGED <<tries, delay, backoff, pattern, mtries, mdelay, sleeps>>
    /\ UNCHANGED <<excelVars, imageVars, restVars>>

NextRetry ==
    \/ f_retry_enter
    \/ f_retry_attempt
    \/ f_retry_final

SpecRetry == InitRetry /\ [][NextRetry]_vars

(***************************************************************************)
(* Claims about the retry wrapper (checked under SpecRetry).               *)
(***************************************************************************)
RECURSIVE Pow(_, _)
Pow(b, n) == IF n = 0 THEN 1 ELSE b * Pow(b, n - 1)

\* The first n invocations of f all raise a retryable error.
FailsFirst(n) == \A i \in 1..n : pattern[i] = "retryable"

\* The attempts a call of f_retry may make.
Attempts == IF tries >= 1 THEN tries ELSE 1

\* C1: with tries >= 1, an operation that raises a retryable error on its
\* first k < tries calls and then succeeds makes f_retry return that value
\* after exactly k+1 invocations and k sleeps of delay, delay*backoff, ...,
\* delay*backoff^(k-1); an operation that always raises a retryable error is
\* invoked exactly tries times, with tries-1 sleeps, and f_retry raises.
C1_RetryBound ==
    (rpc = "done" /\ tries >= 1) =>
        /\ \A k \in 0..(tries - 1) :
              (FailsFirst(k) /\ pattern[k + 1] = "ok") =>
                  /\ result = <<"return", k + 1>>
                  /\ ncalls = k + 1
                  /\ sleeps = [i \in 1..k |-> delay * Pow(backoff, i - 1)]
        /\ FailsFirst(tries) =>
                  /\ result[1] = "raise"
                  /\ ncalls = tries
                  /\ Len(sleeps) = tries - 1

C1_Witness ==
    /\ rpc = "done"
    /\ tries = 3 /\ delay = 1 /\ backoff = 2
    /\ pattern[1] = "retryable" /\ pattern[2] = "retryable" /\ pattern[3] = "ok"
    /\ result = <<"return", 3>>
    /\ sleeps = <<1, 2>>

\* C2 as stated: for every value of tries, f is invoked at most tries times
\* (never, when tries is 0 or negative).
C2_AtMostTries == ncalls <= (IF tries >= 0 THEN tries ELSE 0)

\* C2 as amended: f is invoked at most tries times when tries >= 1, and
\* exactly once when tries <= 0 (the final attempt is unconditional).
C2_AtMostTriesOrOne ==
    /\ ncalls <= Attempts
    /\ (rpc = "done" /\ tries <= 0) => ncalls = 1

C2_Witness ==
    /\ rpc = "done"
    /\ tries = 0
    /\ ncalls = 1

\* C3: an error outside the retryable set propagates on the attempt where it
\* occurs, with no sleep and no further invocation; when every attempt
\* raises a retryable error the caller receives the last attempt's error.
C3_Propagation ==
    rpc = "done" =>
        /\ \A j \in 1..Attempts :
              (FailsFirst(j - 1) /\ pattern[j] = "other") =>
                  /\ result = <<"raise", j>>
                  /\ ncalls = j
                  /\ Len(sleeps) = j - 1
        /\ FailsFirst(Attempts) =>
                  /\ result = <<"raise", Attempts>>
                  /\ ncalls = Attempts

C3_Witness ==
    /\ rpc = "done"
    /\ tries = 3
    /\ pattern[1] = "retryable" /\ pattern[2] = "other"
    /\ result = <<"raise", 2>>
    /\ Len(sleeps) = 1

(***************************************************************************)
(* excel_monitor.py: the worksheet.  `sheet` holds values[1:], the data    *)
(* rows under the header row; a row is the dict that zip(header, row)      *)
(* builds.                                                                 *)
(***************************************************************************)

RowOf(c, tg, p) ==
    [Content |-> c, TargetGroup |-> tg, Instagram |-> "", LinkedIn |-> "",
     processed |-> p]

\* The rows an operator may have put into the sheet.
SampleRows ==
    { RowOf("AI in Healthcare", "Doctors", ""),
      RowOf("", "", ""),
      RowOf("AI in Law", "Lawyers", "x") }

\* An unprocessed row with content: one the pipeline will work on.
IsLive(r) == r.processed = "" /\ r.Content # ""

LiveCount(sh) == Cardinality({i \in DOMAIN sh : IsLive(sh[i])})

InitSheets ==
    { sh \in UNION { [1..n -> SampleRows] : n \in 0..MaxRows } :
        LiveCount(sh) <= MaxLive }

\* `not row.get("processed")`
Unprocessed(r) == r.processed = ""

\* get_excel_rows: the data rows whose processed cell is empty, in order.
get_excel_rows(sh) == SelectSeq(sh, Unprocessed)

\* The sheet positions (1-based in `sheet`) of the rows get_excel_rows
\* returns, in the same order.
RECURSIVE PositionsFrom(_, _)
PositionsFrom(sh, i) ==
    IF i > Len(sh) THEN <<>>
    ELSE IF Unprocessed(sh[i]) THEN <<i>> \o PositionsFrom(sh, i + 1)
    ELSE PositionsFrom(sh, i + 1)

\* `excel_row = row_index + 1`, cell row `excel_row + 1`: the worksheet row
\* (1 is the header) that a write for row_index addresses.
CellRow(row_index) == (row_index + 1) + 1

\* The position in `sheet` of worksheet row n (worksheet row 1 is the
\* header, so values[n-1] and data row n-1).
DataRow(n) == n - 1

write_instagram_post(sh, row_index, post_text) ==
    [sh EXCEPT ![DataRow(CellRow(row_index))].Instagram = post_text]

write_linkedin_post(sh, row_index, post_text) ==
    [sh EXCEPT ![DataRow(CellRow(row_index))].LinkedIn = post_text]

mark_row_processed(sh, row_index) ==
    [sh EXCEPT ![DataRow(CellRow(row_index))].processed = "x"]

(***************************************************************************)
(* The collaborators of process_excel_topics and what they may answer.     *)
(***************************************************************************)

\* fetch_news_articles returns data.get("articles", []): dicts that usually,
\* but not necessarily, carry a "title".
SampleArticles ==
    << [title |-> "AI revolutionizes diagnosis", description |-> "AI is helping doctors..."],
       [description |-> "An article without a title"],
       [title |-> "Robots in the ward", description |-> ""] >>

NewsAnswers == { "raise", <<>>, SampleArticles }

\* generate_*_post: raises, or returns text, possibly the empty string.
InstagramAnswers == { "raise", "", "Instagram post (generated)" }
LinkedInAnswers == { "raise", "", "LinkedIn post (generated)" }

\* write_*_post and mark_row_processed: return, or raise with nothing written.
WriteAnswers == { "ok", "raise" }

(***************************************************************************)
(* main.py: process_excel_topics                                           *)
(***************************************************************************)

\* A failure that is logged and not reported.
send_error_dropped(l, subject) == l

\* send_error(subject, body, config) and send_confirmation(...), seen from
\* the pipeline: the notification is handed to the gateway.
send_error(l, subject) == [l EXCEPT !.errors = Append(@, subject)]
send_confirmation(l, subject) == [l EXCEPT !.confirmations = Append(@, subject)]

RECURSIVE Join(_, _)
\* sep.join(parts)
Join(parts, sep) ==
    IF parts = <<>> THEN ""
    ELSE IF Len(parts) = 1 THEN parts[1]
    ELSE parts[1] \o sep \o Join(Tail(parts), sep)

\* `if 'title' in a`
HasTitle(a) == "title" \in DOMAIN a

\* [f"- {a['title']}" for a in news_articles if 'title' in a]
RECURSIVE TitleLines(_)
TitleLines(articles) ==
    IF articles = <<>> THEN <<>>
    ELSE (IF HasTitle(Head(articles))
          THEN << "- " \o Head(articles).title >>
          ELSE <<>>) \o TitleLines(Tail(articles))

\* A fallback that never uses the placeholder form.
FallbackCaptionTitlesOnly(c, tg, articles) ==
    "Topic: " \o c \o "\nTarget Group: " \o Fmt(tg)
        \o "\n\nRelevant News:\n" \o Join(TitleLines(articles), "\n")

\* The fallback caption of lines 126-130.
FallbackCaption(c, tg, articles) ==
    IF articles # <<>>
    THEN "Topic: " \o c \o "\nTarget Group: " \o Fmt(tg)
            \o "\n\nRelevant News:\n" \o Join(TitleLines(articles), "\n")
    ELSE "Topic: " \o c \o "\nTarget Group: " \o Fmt(tg)
            \o "\n(No relevant news articles found)"

\* A completion test that forgets the LinkedIn write.
MayMarkCaptionOnly(cap, li_ok) == Truthy(cap)

\* `if caption and linkedin_success`
MayMark(cap, li_ok) == Truthy(cap) /\ li_ok

\* Where the for loop goes after row i.
AfterRow(i) == IF i + 1 < Len(rows) THEN "row" ELSE "done"

\* A skip that leaves the loop (`break`).
SkipBreaks(i) == "done"

\* `continue` on a row without content: on to the next row.
SkipTo(i) == AfterRow(i)

\* An except branch of the Instagram write that gives the caption up.
CaptionDroppedOnFailure(cap, ans) == IF ans = "raise" THEN None ELSE cap

\* Lines 132-141 leave `caption` as it is, whether the write returned or
\* raised.
CaptionAfterWrite(cap, ans) == cap

\* An except branch that leaves news_articles as the last row left it.
ArticlesKept(stale) == stale

\* `news_articles = []` in the news stage's except branch.
ArticlesOnFailure(stale) == <<>>

\* An except branch of the LinkedIn generation that leaves linkedin_post as
\* the last row left it.
LinkedInKept(stale) == stale

\* `linkedin_post = None` in the LinkedIn generation's except branch.
LinkedInOnFailure(stale) == None

\* A handler of a failed mark_row_processed that clears what the row wrote.
SheetRolledBack(sh, row_index) ==
    IF DataRow(CellRow(row_index)) \in DOMAIN sh
    THEN [sh EXCEPT ![DataRow(CellRow(row_index))].Instagram = "",
                    ![DataRow(CellRow(row_index))].LinkedIn = ""]
    ELSE sh

\* Lines 178-185 write nothing to the sheet: what the row wrote stays.
SheetAfterMarkFailure(sh, row_index) == sh

\* A row boundary that lets the error leave process_excel_topics.
BoundaryReraises(i) == "raised"

\* Lines 178-185 end the row's iteration; the for loop goes on.
AfterBoundary(i) == AfterRow(i)

\* An empty fetch that is reported.
NotifyEmptyFetch(l) == send_error(l, "Susi Excel Workflow: No New Topics")

\* Lines 88-90: an empty fetch is logged and nothing else.
OnEmptyFetch(l) == l

\* How the success notification's call at lines 173-177 ends.
ConfirmAnswers == {"ok", "raise"}

InitExcel ==
    /\ RetryIdle
    /\ ImagesIdle
    /\ RestIdle
    /\ sheet \in InitSheets
    /\ pc = "start"
    /\ rows = <<>>
    /\ idx = 0
    /\ content = None
    /\ target_group = None
    /\ news_articles = <<>>
    /\ caption = None
    /\ linkedin_post = None
    /\ linkedin_success = FALSE
    /\ origin = <<>>
    /\ log = EmptyLog
    /\ hist = <<>>

\* Lines 86-92: fetch the unprocessed rows; nothing to do when there are
\* none.  An error of get_excel_rows leaves process_excel_topics.
FetchRows ==
    /\ pc = "start"
    /\ \/ /\ pc' = "raised"
          /\ UNCHANGED <<rows, origin>>
       \/ /\ rows' = get_excel_rows(sheet)
          /\ origin' = PositionsFrom(sheet, 1)
          /\ pc' = IF rows' = <<>> THEN "done" ELSE "row"
    /\ log' = IF pc' = "done" THEN OnEmptyFetch(log) ELSE log
    /\ UNCHANGED <<sheet, idx, content, target_group, news_articles, caption,
                   linkedin_post, linkedin_success, hist>>
    /\ UNCHANGED <<retryVars, imageVars, restVars>>

\* Lines 93-101: read the row's fields; skip a row without content.
ReadRow ==
    /\ pc = "row"
    /\ LET row == rows[idx + 1]
           c   == Or(row.Content, None)
           tg  == Or(row.TargetGroup, None)
       IN /\ content' = c
          /\ target_group' = tg
          /\ log' = EmptyLog
          /\ IF ~Truthy(c)
             THEN /\ idx' = idx + 1
                  /\ pc' = SkipTo(idx)
                  /\ hist' = Append(hist, {"skipped"})
             ELSE /\ pc' = "news"
                  /\ UNCHANGED <<idx, hist>>
    /\ UNCHANGED <<sheet, rows, origin, news_articles, caption, linkedin_post,
                   linkedin_success>>
    /\ UNCHANGED <<retryVars, imageVars, restVars>>

\* Lines 102-113: the news stage.
NewsStage ==
    /\ pc = "news"
    /\ \E ans \in NewsAnswers :
         LET l == [log EXCEPT !.news = Append(@, <<content, target_group>>),
                              !.newsOut = Append(@, ans)]
         IN IF ans = "raise"
            THEN /\ news_articles' = ArticlesOnFailure(news_articles)
                 /\ log' = send_error(l, "Susi Excel Workflow: News Fetch Failed")
            ELSE /\ news_articles' = ans
                 /\ log' = l
    /\ pc' = "ig_gen"
    /\ UNCHANGED <<sheet, rows, origin, idx, content, target_group, caption,
                   linkedin_post, linkedin_success, hist>>
    /\ UNCHANGED <<retryVars, imageVars, restVars>>

\* Lines 114-130: the Instagram-generation stage with its fallback.
InstagramGenStage ==
    /\ pc = "ig_gen"
    /\ \E ans \in InstagramAnswers :
         LET l == [log EXCEPT
                     !.igGen = Append(@, <<content, target_group, news_articles>>),
                     !.igGenOut = Append(@, ans)]
         IN IF ans = "raise"
            THEN /\ log' = send_error(l,
                     "Susi Excel Workflow: Instagram Post Generation Failed")
                 /\ caption' = FallbackCaption(content, target_group, news_articles)
            ELSE /\ log' = l
                 /\ caption' = ans
    /\ pc' = "ig_write"
    /\ UNCHANGED <<sheet, rows, origin, idx, content, target_group,
                   news_articles, linkedin_post, linkedin_success, hist>>
    /\ UNCHANGED <<retryVars, imageVars, restVars>>

\* Lines 131-141: the Instagram-write stage.
InstagramWriteStage ==
    /\ pc = "ig_write"
    /\ \E ans \in WriteAnswers :
         LET l == [log EXCEPT !.igWrite = Append(@, <<idx, caption>>),
                              !.igWriteOut = Append(@, ans)]
         IN /\ IF ans = "raise"
               THEN /\ log' = send_error(l,
                        "Susi Excel Workflow: Instagram Post Write Failed")
                    /\ UNCHANGED sheet
               ELSE /\ log' = l
                    /\ sheet' = write_instagram_post(sheet, idx, caption)
            /\ caption' = CaptionAfterWrite(caption, ans)
    /\ pc' = "li_gen"
    /\ UNCHANGED <<rows, origin, idx, content, target_group, news_articles,
                   linkedin_post, linkedin_success, hist>>
    /\ UNCHANGED <<retryVars, imageVars, restVars>>

\* Lines 143-155: the LinkedIn-generation stage.
LinkedInGenStage ==
    /\ pc = "li_gen"
    /\ \E ans \in LinkedInAnswers :
         LET l == [log EXCEPT
                     !.liGen = Append(@, <<content, target_group, news_articles>>),
                     !.liGenOut = Append(@, ans)]
         IN IF ans = "raise"
            THEN /\ log' = send_error(l,
                     "Susi Excel Workflow: LinkedIn Post Generation Failed")
                 /\ linkedin_post' = LinkedInOnFailure(linkedin_post)
            ELSE /\ log' = l
                 /\ linkedin_post' = ans
    /\ linkedin_success' = FALSE
    /\ pc' = "li_write"
    /\ UNCHANGED <<sheet, rows, origin, idx, content, target_group,
                   news_articles, caption, hist>>
    /\ UNCHANGED <<retryVars, imageVars, restVars>>

\* Lines 156-167: the LinkedIn-write stage, entered only with a post.
LinkedInWriteStage ==
    /\ pc = "li_write"
    /\ IF Truthy(linkedin_post)
       THEN \E ans \in WriteAnswers :
              LET l == [log EXCEPT !.liWrite = Append(@, <<idx, linkedin_post>>),
                                   !.liWriteOut = Append(@, ans)]
              IN IF ans = "raise"
                 THEN /\ log' = send_error(l,
                          "Susi Excel Workflow: LinkedIn Post Write Failed")
                      /\ UNCHANGED <<sheet, linkedin_success>>
                 ELSE /\ log' = l
                      /\ sheet' = write_linkedin_post(sheet, idx, linkedin_post)
                      /\ linkedin_success' = TRUE
       ELSE UNCHANGED <<log, sheet, linkedin_success>>
    /\ pc' = "complete"
    /\ UNCHANGED <<rows, origin, idx, content, target_group, news_articles,
                   caption, linkedin_post, hist>>
    /\ UNCHANGED <<retryVars, imageVars, restVars>>

\* What the cycle remembers of the row it has just handled.
RowTags(l) ==
    (IF l.igWriteOut = <<"ok">> /\ l.liWriteOut = <<"raise">>
     THEN {"li_retry"} ELSE {})
    \cup
    (IF "Susi Excel Workflow: Unexpected Error"
            \in {l.errors[i] : i \in DOMAIN l.errors}
     THEN {"boundary"} ELSE {})
    \cup
    (IF /\ l.newsOut[1] # "raise"
        /\ l.igGenOut[1] \notin {"raise", ""}
        /\ l.igWriteOut = <<"ok">>
        /\ l.liGenOut[1] \notin {"raise", ""}
        /\ l.liWriteOut = <<"ok">>
        /\ l.markOut = <<"ok">>
        /\ l.confirmOut = <<"ok">>
     THEN {"clean"} ELSE {})
    \cup
    (IF Len(l.confirmations) = 1 /\ l.errors = <<>> /\ Len(l.mark) = 1
     THEN {"rewarded"} ELSE {})

\* Lines 169-185: completion, and the row boundary's handler for an error
\* of mark_row_processed or of the success notification.
\* A pipeline that publishes the caption of a row it has completed.
PosterPosts(l, cap) == [l EXCEPT !.post = Append(@, cap)]

\* Lines 91-92 build the poster; no statement of process_excel_topics uses
\* it: the posts are stored in the sheet only.
PosterUnused(l, cap) == l

Completion ==
    /\ pc = "complete"
    /\ IF MayMark(caption, linkedin_success)
       THEN \E ans \in WriteAnswers :
              LET l == [log EXCEPT !.mark = Append(@, idx),
                                   !.markOut = Append(@, ans)]
              IN IF ans = "raise"
                 THEN /\ log' = send_error(l,
                          "Susi Excel Workflow: Unexpected Error")
                      /\ sheet' = SheetAfterMarkFailure(sheet, idx)
                      /\ pc' = AfterBoundary(idx)
                 ELSE /\ sheet' = mark_row_processed(sheet, idx)
                      /\ \E c \in ConfirmAnswers :
                           LET lc == [send_confirmation(l,
                                        "Susi Excel Workflow: Both Posts Created")
                                      EXCEPT !.confirmOut = Append(@, c)]
                           IN IF c = "raise"
                              THEN /\ log' = send_error(lc,
                                       "Susi Excel Workflow: Unexpected Error")
                                   /\ pc' = AfterBoundary(idx)
                              ELSE /\ log' = PosterUnused(lc, caption)
                                   /\ pc' = AfterRow(idx)
       ELSE /\ UNCHANGED <<log, sheet>>
            /\ pc' = AfterRow(idx)
    /\ hist' = Append(hist, RowTags(log'))
    /\ idx' = idx + 1
    /\ UNCHANGED <<rows, origin, content, target_group, news_articles, caption,
                   linkedin_post, linkedin_success>>
    /\ UNCHANGED <<retryVars, imageVars, restVars>>

NextExcel ==
    \/ FetchRows
    \/ ReadRow
    \/ NewsStage
    \/ InstagramGenStage
    \/ InstagramWriteStage
    \/ LinkedInGenStage
    \/ LinkedInWriteStage
    \/ Completion

SpecExcel == InitExcel /\ [][NextExcel]_vars

(***************************************************************************)
(* Claims about process_excel_topics (checked under SpecExcel).            *)
(***************************************************************************)

\* A row has just been handled (or skipped): `log` holds its calls and
\* idx - 1 is its index in the fetched list.
RowDone == pc \in {"row", "done"} /\ hist # <<>>

\* The row just handled had content, so its stages ran.
Handled == RowDone /\ "skipped" \notin hist[Len(hist)]

\* The index of the row `log` is about.
Cur == IF pc \in {"row", "done"} THEN idx - 1 ELSE idx

Count(seq, x) == Cardinality({i \in DOMAIN seq : seq[i] = x})

NewsFailed == "Susi Excel Workflow: News Fetch Failed"
IgGenFailed == "Susi Excel Workflow: Instagram Post Generation Failed"
IgWriteFailed == "Susi Excel Workflow: Instagram Post Write Failed"
LiWriteFailed == "Susi Excel Workflow: LinkedIn Post Write Failed"

\* The Instagram caption of the row is non-empty: generation returned text
\* that is not empty, or it raised and the fallback took its place.
CaptionNonEmpty == log.igGenOut[1] # ""

C5_MarkedImpliesWritten ==
    Handled =>
        /\ (log.igWriteOut = <<"raise">> => log.mark = <<>>)
        /\ (log.mark # <<>> =>
               /\ log.igWriteOut = <<"ok">>
               /\ Truthy(log.igWrite[1][2]))

CurContent == rows[Cur + 1].Content
CurTarget == IF rows[Cur + 1].TargetGroup = "" THEN None
             ELSE rows[Cur + 1].TargetGroup

\* The article list the row's news fetch gave: empty when it raised.
CurArticles == IF log.newsOut[1] = "raise" THEN <<>> ELSE log.newsOut[1]

\* C7: a failed news fetch is notified exactly once and the row goes on with
\* an empty article list: generation is called with the row's content,
\* target group and <<>>, and its result is written; and every row, those
\* after a failed one included, is handled with its own fields and its own
\* articles, each stage once.
C7_NewsFailForward ==
    log.news # <<>> =>
        /\ log.news = << <<CurContent, CurTarget>> >>
        /\ Count(log.errors, NewsFailed)
              = (IF log.newsOut = <<"raise">> THEN 1 ELSE 0)
        /\ log.igGen # <<>> =>
              log.igGen = << <<CurContent, CurTarget, CurArticles>> >>
        /\ log.liGen # <<>> =>
              log.liGen = << <<CurContent, CurTarget, CurArticles>> >>
        /\ (log.igWrite # <<>> /\ log.igGenOut[1] # "raise") =>
              log.igWrite = << <<Cur, log.igGenOut[1]>> >>
        /\ Handled =>
              /\ Len(log.igGen) = 1
              /\ Len(log.igWrite) = 1
              /\ Len(log.liGen) = 1

\* The news fetch fails for a row that follows a row handled without any
\* failure; the row is generated from an empty article list and written.
C7_Witness ==
    /\ Handled
    /\ idx = 2
    /\ "clean" \in hist[1]
    /\ log.newsOut[1] = "raise"
    /\ log.errors = <<NewsFailed>>
    /\ log.igGen = << <<"AI in Healthcare", "Doctors", <<>> >> >>
    /\ log.igWrite = << <<1, "Instagram post (generated)">> >>

\* What `- <title>` lines the claim expects, joined by line breaks.
RECURSIVE LinesText(_)
LinesText(lines) ==
    IF lines = <<>> THEN ""
    ELSE IF Len(lines) = 1 THEN lines[1]
    ELSE LinesText(SubSeq(lines, 1, Len(lines) - 1)) \o "\n" \o lines[Len(lines)]

FallbackHead(c, tg) == "Topic: " \o c \o "\nTarget Group: " \o Fmt(tg)

\* One line per fetched article.
LinePerArticle(articles) ==
    [i \in 1..Len(articles) |->
        "- " \o (IF "title" \in DOMAIN articles[i] THEN articles[i].title
                 ELSE "None")]

\* One line per fetched article that has a title.
LinePerTitle(articles) ==
    LET titled == SelectSeq(articles, LAMBDA a : "title" \in DOMAIN a)
    IN [i \in 1..Len(titled) |-> "- " \o titled[i].title]

ExpectedFallback(c, tg, articles, lines) ==
    IF articles = <<>>
    THEN FallbackHead(c, tg) \o "\n(No relevant news articles found)"
    ELSE FallbackHead(c, tg) \o "\n\nRelevant News:\n" \o LinesText(lines)

\* C8 as stated: a failed Instagram generation is notified exactly once and
\* the caption written is the fallback with one `- <title>` line per fetched
\* article (the placeholder form when there are none).
C8_FallbackLinePerArticle ==
    (log.igGenOut = <<"raise">>) =>
        /\ Count(log.errors, IgGenFailed) = 1
        /\ log.igWrite # <<>> =>
              log.igWrite = << <<Cur, ExpectedFallback(CurContent, CurTarget,
                                   CurArticles, LinePerArticle(CurArticles))>> >>

\* C8 as amended: ... with one `- <title>` line per fetched article that has
\* a title; an article without a "title" key gives no line.
C8_FallbackLinePerTitle ==
    /\ (log.igGenOut = <<"raise">>) =>
        /\ Count(log.errors, IgGenFailed) = 1
        /\ log.igWrite # <<>> =>
              log.igWrite = << <<Cur, ExpectedFallback(CurContent, CurTarget,
                                   CurArticles, LinePerTitle(CurArticles))>> >>
        /\ Handled => Len(log.igWrite) = 1
    /\ (log.igGenOut # <<>> /\ log.igGenOut # <<"raise">>) =>
        Count(log.errors, IgGenFailed) = 0

C8_Witness ==
    /\ Handled
    /\ log.igGenOut = <<"raise">>
    /\ log.newsOut[1] # "raise"
    /\ Len(log.newsOut[1]) = 3
    /\ log.igWrite = << <<idx - 1,
          "Topic: AI in Healthcare\nTarget Group: Doctors\n\nRelevant News:\n- AI revolutionizes diagnosis\n- Robots in the ward">> >>

\* C9: a fetched row without content is skipped with no call and no
\* notification at all; the rows after it are still handled, and every write
\* and mark is made under the row's own position in the fetched list.
C9_SkipEmptyContent ==
    /\ (RowDone /\ rows[idx].Content = "") =>
          /\ log = EmptyLog
          /\ "skipped" \in hist[Len(hist)]
    /\ (pc = "done" /\ rows # <<>>) =>
          /\ idx = Len(rows)
          /\ Len(hist) = Len(rows)
    /\ \A i \in DOMAIN hist :
          ("skipped" \in hist[i]) <=> (rows[i].Content = "")
    /\ \A i \in DOMAIN log.igWrite : log.igWrite[i][1] = Cur
    /\ \A i \in DOMAIN log.liWrite : log.liWrite[i][1] = Cur
    /\ \A i \in DOMAIN log.mark : log.mark[i] = Cur
    /\ Handled => Len(log.igWrite) = 1

\* The third of three fetched rows is written and marked as row 2 after the
\* second was skipped.
C9_Witness ==
    /\ pc = "done"
    /\ Len(rows) = 3
    /\ rows[2].Content = ""
    /\ "skipped" \in hist[2]
    /\ log.igWrite = << <<2, "Instagram post (generated)">> >>
    /\ log.mark = <<2>>

\* C10 as stated: a row whose Instagram write succeeded and whose LinkedIn
\* write failed gets exactly one failure notification, no mark and no
\* success notification, and is returned again by the next cycle's fetch
\* (its processed cell is still empty when the cycle ends).
C10_ReturnedNextCycle ==
    /\ (Handled /\ log.igWriteOut = <<"ok">> /\ log.liWriteOut = <<"raise">>) =>
          /\ Count(log.errors, LiWriteFailed) = 1
          /\ Count(log.errors, IgWriteFailed) = 0
          /\ log.mark = <<>>
          /\ log.confirmations = <<>>
    /\ pc = "done" =>
          \A i \in DOMAIN hist :
              "li_retry" \in hist[i] => Unprocessed(sheet[origin[i]])

LiGenFailed == "Susi Excel Workflow: LinkedIn Post Generation Failed"
UnexpectedError == "Susi Excel Workflow: Unexpected Error"

\* C11: a failed LinkedIn generation is notified once, nothing takes the
\* text's place, write_linkedin_post is not called and the row is not marked;
\* write_linkedin_post is only ever called with the text that the LinkedIn
\* generation returned for this row.
C11_NoLinkedInFallback ==
    /\ (log.liGenOut = <<"raise">>) =>
          /\ Count(log.errors, LiGenFailed) = 1
          /\ log.liWrite = <<>>
          /\ log.mark = <<>>
          /\ log.confirmations = <<>>
    /\ (log.liGenOut # <<>> /\ log.liGenOut # <<"raise">>) =>
          Count(log.errors, LiGenFailed) = 0
    /\ log.liWrite # <<>> =>
          /\ log.liGenOut # <<>>
          /\ log.liGenOut[1] \notin {"raise", ""}
          /\ log.liWrite = << <<Cur, log.liGenOut[1]>> >>

\* The LinkedIn generation fails for a row that follows a row whose LinkedIn
\* post was written.
C11_Witness ==
    /\ Handled
    /\ idx = 2
    /\ "clean" \in hist[1]
    /\ log.liGenOut = <<"raise">>
    /\ log.errors = <<LiGenFailed>>
    /\ log.liWrite = <<>>

\* C12: a failed mark_row_processed is notified exactly once, no success
\* notification is sent, the values the row wrote stay in the sheet with no
\* further write, and the loop goes on to the next row.
C12_MarkFailure ==
    (RowDone /\ log.markOut = <<"raise">>) =>
        /\ Count(log.errors, UnexpectedError) = 1
        /\ log.confirmations = <<>>
        /\ Len(log.igWrite) = 1
        /\ Len(log.liWrite) = 1
        /\ log.mark = <<idx - 1>>
        /\ sheet[idx].LinkedIn = log.liWrite[1][2]
        /\ log.igWriteOut = <<"ok">> => sheet[idx].Instagram = log.igWrite[1][2]
        /\ pc = (IF idx < Len(rows) THEN "row" ELSE "done")

C12_Witness ==
    /\ RowDone
    /\ log.markOut = <<"raise">>
    /\ log.errors = <<UnexpectedError>>
    /\ sheet[idx].Instagram = "Instagram post (generated)"
    /\ sheet[idx].LinkedIn = "LinkedIn post (generated)"
    /\ sheet[idx].processed = ""
    /\ pc = "row"

\* How many of the row's calls raised.
Raises(outs) == Cardinality({i \in DOMAIN outs : outs[i] = "raise"})

RaiseCount(l) ==
    Raises(l.newsOut) + Raises(l.igGenOut) + Raises(l.igWriteOut)
        + Raises(l.liGenOut) + Raises(l.liWriteOut) + Raises(l.markOut)
        + Raises(l.confirmOut)

C14_AllSucceed ==
    /\ (pc = "done" /\ rows # <<>> /\ \A i \in DOMAIN hist : "clean" \in hist[i]) =>
          /\ Len(hist) = Len(rows)
          /\ \A i \in DOMAIN hist : "rewarded" \in hist[i]
          /\ \A i \in DOMAIN rows : ~Unprocessed(sheet[origin[i]])
    /\ log.igGen # <<>> => Len(log.news) = 1
    /\ log.igWrite # <<>> => Len(log.igGen) = 1
    /\ log.liGen # <<>> => Len(log.igWrite) = 1
    /\ log.liWrite # <<>> => Len(log.liGen) = 1
    /\ log.mark # <<>> => log.liWriteOut = <<"ok">>
    /\ log.confirmations # <<>> => log.markOut = <<"ok">>
    /\ Len(hist) = idx

\* C15: when the fetch returns no rows the cycle returns at once: no call
\* to any collaborator, no write, no mark, no notification.
C15_EmptyFetch ==
    (pc = "done" /\ rows = <<>>) =>
        /\ log = EmptyLog
        /\ hist = <<>>
        /\ idx = 0
        /\ \A i \in DOMAIN sheet : sheet[i] \in SampleRows

\* The sheet has rows, all of them processed.
C15_Witness ==
    /\ pc = "done"
    /\ rows = <<>>
    /\ Len(sheet) = 2
    /\ log = EmptyLog

(***************************************************************************)
(* main.py: the polling loop of main and process_images.                   *)
(***************************************************************************)

ImageIds == 1..MaxImages

\* The dict list_onedrive_images returns for an image.
Item(i) == [id |-> i, name |-> "image" \o ToString(i) \o ".jpg"]

\* os.path.join(LOCAL_DOWNLOAD_DIR, item['name'])
PathOf(item) == "downloads/" \o item.name

\* What generate_post_text renders from the metadata of the item's file.
CaptionOf(item) == "caption of " \o item.name

\* The public URL upload_file_to_s3 builds from the file's basename.
UrlOf(item) == "https://bucket.s3.region.amazonaws.com/" \o item.name

\* The children of the watched folder, in the order of the listing.
RECURSIVE Listing(_)
Listing(f) ==
    IF f = {} THEN <<>>
    ELSE LET least == CHOOSE i \in f : \A j \in f : i <= j
         IN <<Item(least)>> \o Listing(f \ {least})

\* A filter that lets every listed image through.
FilterNothing(imgs, seen) == imgs

\* Line 233: `[img for img in images if img['id'] not in seen_ids]`
FilterSeen(imgs, seen) == SelectSeq(imgs, LAMBDA img : img.id \notin seen)

\* How the collaborators' calls end.
CallAnswers == {"ok", "raise"}
UploadAnswers(item) == {UrlOf(item), None, "raise"}
PostAnswers == {"True", "False", "raise"}
MoveAnswers == {"ok", "rejected", "raise"}

\* An upload stage that only fails when the upload raises.
UploadFailedOnlyRaise(ans) == ans = "raise"

\* Lines 271-282: the upload raised or `not s3_url`.
UploadFailed(ans) == ans = "raise" \/ ~Truthy(ans)

\* A publish stage that only fails when poster.post raises.
PostFailedOnlyRaise(ans) == ans = "raise"

\* Lines 294-298: poster.post raised or `not success`.
PostFailed(ans) == ans = "raise" \/ ans = "False"

\* A publish call with its arguments the wrong way round.
PostArgsSwapped(url, cap) == <<cap, url>>

\* Line 295: poster.post(s3_url, caption, config)
PostArgs(url, cap) == <<url, cap>>

InitImages ==
    /\ RetryIdle
    /\ ExcelIdle
    /\ RestIdle
    /\ folder \in SUBSET ImageIds
    /\ files = {}
    /\ ipc = "poll"
    /\ seen_ids = {}
    /\ listed = <<>>
    /\ cyc = 0
    /\ images = <<>>
    /\ ipos = 0
    /\ local_path = None
    /\ icaption = None
    /\ s3_url = None
    /\ ilog = EmptyImageLog
    /\ seen0 = {}
    /\ posted = [i \in ImageIds |-> 0]
    /\ retryable = {}
    /\ steps = <<>>

\* main, lines 389-391: the loop lists the folder and calls process_images
\* with the listing and seen_ids.  An error of the listing leaves main.
PollList ==
    /\ ipc = "poll"
    /\ cyc < MaxCycles
    /\ cyc' = cyc + 1
    /\ seen0' = seen_ids
    /\ steps' = <<"list_onedrive_images">>
    /\ \/ /\ ipc' = "crashed"
          /\ UNCHANGED listed
       \/ /\ listed' = Listing(folder)
          /\ ipc' = "enter"
    /\ UNCHANGED <<folder, files, seen_ids, images, ipos, local_path, icaption,
                   s3_url, ilog, posted, retryable>>
    /\ UNCHANGED <<retryVars, excelVars, restVars>>

\* process_images, lines 227-238: keep the token alive, drop the images
\* already seen, return when nothing is left.
EnterImages ==
    /\ ipc = "enter"
    /\ \/ /\ ipc' = "crashed"
          /\ UNCHANGED <<images, ipos>>
       \/ /\ images' = FilterSeen(listed, seen_ids)
          /\ ipos' = 0
          /\ ipc' = IF images' = <<>> THEN "excel" ELSE "next"
    /\ ilog' = EmptyImageLog
    /\ steps' = Append(steps, "keep_onedrive_token_alive")
    /\ UNCHANGED <<folder, files, seen_ids, listed, cyc, local_path, icaption,
                   s3_url, seen0, posted, retryable>>
    /\ UNCHANGED <<retryVars, excelVars, restVars>>

\* Line 239: `for item in images`.
IterNext ==
    /\ ipc = "next"
    /\ IF ipos < Len(images)
       THEN /\ ipos' = ipos + 1
            /\ ilog' = EmptyImageLog
            /\ ipc' = "download"
       ELSE /\ ipc' = "excel"
            /\ UNCHANGED <<ipos, ilog>>
    /\ UNCHANGED <<steps, folder, files, seen_ids, listed, cyc, images, local_path,
                   icaption, s3_url, seen0, posted, retryable>>
    /\ UNCHANGED <<retryVars, excelVars, restVars>>

\* Lines 241-253: the download stage.
DownloadStage ==
    /\ ipc = "download"
    /\ LET item == images[ipos]
       IN \E ans \in CallAnswers :
            LET l == [ilog EXCEPT !.download = Append(@, item.id),
                                  !.downloadOut = Append(@, ans),
                                  !.order = Append(@, "download")]
            IN IF ans = "raise"
               THEN /\ ilog' = send_error(l, "Susi OneDrive Download Failed")
                    /\ ipc' = "next"
                    /\ UNCHANGED <<local_path, files>>
               ELSE /\ ilog' = l
                    /\ local_path' = PathOf(item)
                    /\ files' = files \cup {item.id}
                    /\ ipc' = "meta"
    /\ UNCHANGED <<steps, folder, seen_ids, listed, cyc, images, ipos, icaption,
                   s3_url, seen0, posted, retryable>>
    /\ UNCHANGED <<retryVars, excelVars, restVars>>

\* Lines 254-267: metadata extraction, then caption rendering; an error of
\* either ends the item.
MetaCaptionStage ==
    /\ ipc = "meta"
    /\ LET item == images[ipos]
           m == [ilog EXCEPT !.meta = Append(@, local_path),
                             !.order = Append(@, "extract_metadata")]
       IN \/ /\ ilog' = send_error([m EXCEPT !.metaOut = Append(@, "raise")],
                                   "Susi Metadata/Caption Error")
             /\ ipc' = "next"
             /\ UNCHANGED icaption
          \/ \E ans \in CallAnswers :
               LET l == [m EXCEPT !.metaOut = Append(@, "ok"),
                                  !.render = Append(@, item.id),
                                  !.renderOut = Append(@, ans),
                                  !.order = Append(@, "generate_post_text")]
               IN IF ans = "raise"
                  THEN /\ ilog' = send_error(l, "Susi Metadata/Caption Error")
                       /\ ipc' = "next"
                       /\ UNCHANGED icaption
                  ELSE /\ ilog' = l
                       /\ icaption' = CaptionOf(item)
                       /\ ipc' = "upload"
    /\ UNCHANGED <<steps, folder, files, seen_ids, listed, cyc, images, ipos,
                   local_path, s3_url, seen0, posted, retryable>>
    /\ UNCHANGED <<retryVars, excelVars, restVars>>

\* Lines 269-291: the object-store upload.
UploadStage ==
    /\ ipc = "upload"
    /\ LET item == images[ipos]
       IN \E ans \in UploadAnswers(item) :
            LET l == [ilog EXCEPT !.upload = Append(@, local_path),
                                  !.uploadOut = Append(@, ans),
                                  !.order = Append(@, "upload")]
            IN /\ s3_url' = IF ans = "raise" THEN s3_url ELSE ans
               /\ IF UploadFailed(ans)
                  THEN /\ ilog' = send_error(l, "Susi S3 Upload Failed")
                       /\ ipc' = "next"
                  ELSE /\ ilog' = l
                       /\ ipc' = "post"
    /\ UNCHANGED <<steps, folder, files, seen_ids, listed, cyc, images, ipos,
                   local_path, icaption, seen0, posted, retryable>>
    /\ UNCHANGED <<retryVars, excelVars, restVars>>

\* Lines 293-307: the publish stage.
PostStage ==
    /\ ipc = "post"
    /\ LET item == images[ipos]
       IN \E ans \in PostAnswers :
            LET l == [ilog EXCEPT !.post = Append(@, PostArgs(s3_url, icaption)),
                                  !.postOut = Append(@, ans),
                                  !.order = Append(@, "post")]
            IN /\ posted' = IF ans = "True"
                            THEN [posted EXCEPT ![item.id] = @ + 1]
                            ELSE posted
               /\ IF PostFailed(ans)
                  THEN /\ ilog' = send_error(l, "Susi Social Post Failed")
                       /\ retryable' = retryable \cup {item.id}
                       /\ ipc' = "next"
                  ELSE /\ ilog' = l
                       /\ UNCHANGED retryable
                       /\ ipc' = "move"
    /\ UNCHANGED <<steps, folder, files, seen_ids, listed, cyc, images, ipos,
                   local_path, icaption, s3_url, seen0>>
    /\ UNCHANGED <<retryVars, excelVars, restVars>>

\* Line 308 and move_onedrive_file_to_processed (lines 187-211): the PATCH
\* answers 200/201 and the file is moved, or it answers something else, which
\* is logged and nothing more, or the request raises, which the item's
\* boundary (lines 318-325) reports.
MoveStage ==
    /\ ipc = "move"
    /\ LET item == images[ipos]
       IN \E ans \in MoveAnswers :
            LET l == [ilog EXCEPT !.move = Append(@, item.id),
                                  !.moveOut = Append(@, ans),
                                  !.order = Append(@, "move")]
            IN /\ folder' = IF ans = "ok" THEN folder \ {item.id} ELSE folder
               /\ IF ans = "raise"
                  THEN /\ ilog' = send_error(l, "Susi Unexpected Error")
                       /\ ipc' = "next"
                  ELSE /\ ilog' = l
                       /\ ipc' = "remove"
    /\ UNCHANGED <<steps, files, seen_ids, listed, cyc, images, ipos,
                   local_path,
                   icaption, s3_url, seen0, posted, retryable>>
    /\ UNCHANGED <<retryVars, excelVars, restVars>>

\* Line 309: os.remove(local_path); an error goes to the item's boundary.
RemoveStage ==
    /\ ipc = "remove"
    /\ LET item == images[ipos]
       IN \E ans \in CallAnswers :
            LET l == [ilog EXCEPT !.remove = Append(@, local_path),
                                  !.removeOut = Append(@, ans),
                                  !.order = Append(@, "remove")]
            IN IF ans = "raise"
               THEN /\ ilog' = send_error(l, "Susi Unexpected Error")
                    /\ ipc' = "next"
                    /\ UNCHANGED files
               ELSE /\ ilog' = l
                    /\ files' = files \ {item.id}
                    /\ ipc' = "finish"
    /\ UNCHANGED <<steps, folder, seen_ids, listed, cyc, images, ipos, local_path,
                   icaption, s3_url, seen0, posted, retryable>>
    /\ UNCHANGED <<retryVars, excelVars, restVars>>

\* Lines 311-317: the success notification, then the id joins seen_ids.
\* Lines 316-317: `if seen_ids is not None: seen_ids.add(item['id'])`.
SeenAdded(seen, id) == seen \cup {id}

FinishItem ==
    /\ ipc = "finish"
    /\ ilog' = [send_confirmation(ilog, "Susi Post Created")
                   EXCEPT !.order = @ \o <<"send_confirmation", "seen_ids.add">>]
    /\ seen_ids' = SeenAdded(seen_ids, images[ipos].id)
    /\ ipc' = "next"
    /\ UNCHANGED <<steps, folder, files, listed, cyc, images, ipos, local_path,
                   icaption, s3_url, seen0, posted, retryable>>
    /\ UNCHANGED <<retryVars, excelVars, restVars>>

\* main, lines 392-394: process_excel_topics, then the sleep; an error that
\* leaves process_excel_topics leaves main.
ExcelAndSleep ==
    /\ ipc = "excel"
    /\ ipc' \in {"poll", "crashed"}
    /\ steps' = steps \o (IF ipc' = "crashed"
                          THEN <<"process_excel_topics">>
                          ELSE <<"process_excel_topics", "sleep">>)
    /\ UNCHANGED <<folder, files, seen_ids, listed, cyc, images, ipos,
                   local_path, icaption, s3_url, ilog, seen0, posted, retryable>>
    /\ UNCHANGED <<retryVars, excelVars, restVars>>

NextImages ==
    \/ PollList
    \/ EnterImages
    \/ IterNext
    \/ DownloadStage
    \/ MetaCaptionStage
    \/ UploadStage
    \/ PostStage
    \/ MoveStage
    \/ RemoveStage
    \/ FinishItem
    \/ ExcelAndSleep

SpecImages == InitImages /\ [][NextImages]_vars

\* C30: process_excel_topics never calls poster.post, whatever the rows and
\* whatever the stages do.
C30_NeverPosts == log.post = <<>>

\* A row whose stages all succeeded has been marked and confirmed, and
\* nothing was posted for it.
C30_Witness ==
    /\ Handled
    /\ log.igWriteOut = <<"ok">>
    /\ log.liWriteOut = <<"ok">>
    /\ log.markOut = <<"ok">>
    /\ log.confirmations = <<"Susi Excel Workflow: Both Posts Created">>
    /\ log.confirmOut = <<"ok">>
    /\ log.post = <<>>

(***************************************************************************)
(* Claims about the image pipeline (checked under SpecImages).             *)
(***************************************************************************)

\* process_images is past its filter in the current cycle.
InCycle == ipc \in {"next", "download", "meta", "upload", "post", "move",
                    "remove", "finish", "excel"}

\* An item is being handled or has just been handled: ilog is about it.
OnItem == InCycle /\ ipos >= 1

\* The handling of the item has ended.
ItemDone == ipc \in {"next", "excel"} /\ ipos >= 1

CurItem == images[ipos]

IdsOf(imgs) == {imgs[k].id : k \in DOMAIN imgs}

S3UploadFailed == "Susi S3 Upload Failed"
SocialPostFailed == "Susi Social Post Failed"

\* C16: in every cycle of a polling run, an image whose id was in seen_ids
\* when the cycle started is not offered to the pipeline: it is not among the
\* items of the loop, and no download, upload, publish, move, deletion or
\* notification is made for it, also when the listing returned it.
C16_SeenNotOffered ==
    InCycle =>
        /\ IdsOf(images) \cap seen0 = {}
        /\ IdsOf(images) = IdsOf(listed) \ seen0
        /\ OnItem =>
             /\ CurItem.id \notin seen0
             /\ \A k \in DOMAIN ilog.download : ilog.download[k] = CurItem.id
             /\ \A k \in DOMAIN ilog.upload : ilog.upload[k] = PathOf(CurItem)
             /\ \A k \in DOMAIN ilog.post : ilog.post[k][1] = UrlOf(CurItem)
             /\ \A k \in DOMAIN ilog.move : ilog.move[k] = CurItem.id
             /\ \A k \in DOMAIN ilog.remove : ilog.remove[k] = PathOf(CurItem)
        /\ ~OnItem => ilog = EmptyImageLog

\* In the second cycle the listing still returns a seen image next to one
\* that is not seen; only the latter is handled.
C16_Witness ==
    /\ cyc = 2
    /\ ipc = "excel"
    /\ Len(listed) = 2
    /\ seen0 = {1}
    /\ images = <<Item(2)>>
    /\ ilog.download = <<2>>
    /\ ilog.confirmations # <<>>

\* C17 as stated: an id is in seen_ids only if its publish succeeded and its
\* move to the processed folder succeeded (the image has left the watched
\* folder).
C17_SeenOnlyAfterArchive ==
    \A i \in seen_ids : posted[i] >= 1 /\ i \notin folder

\* C18: when the upload returns nothing or raises, the item gets one failure
\* notification and nothing else: no publish, no move, no deletion of the
\* local file, no success notification, and its id stays out of seen_ids.
C18_UploadFailureAborts ==
    (OnItem /\ ilog.uploadOut # <<>> /\ ilog.uploadOut[1] \in {None, "raise"}) =>
        /\ ilog.errors = <<S3UploadFailed>>
        /\ ilog.post = <<>>
        /\ ilog.move = <<>>
        /\ ilog.remove = <<>>
        /\ ilog.confirmations = <<>>
        /\ CurItem.id \in files
        /\ CurItem.id \in folder
        /\ CurItem.id \notin seen_ids
        /\ ItemDone

C18_Witness ==
    /\ ItemDone
    /\ ilog.uploadOut = <<None>>
    /\ ilog.errors = <<S3UploadFailed>>
    /\ CurItem.id \in files
    /\ ipos < Len(images)

\* C19: a publish that returns False ends the item as one that raises does:
\* one failure notification, no move, no deletion, no success notification,
\* id not in seen_ids; the image stays in the folder and out of seen_ids, so
\* a later cycle that lists it offers it again, and every publish attempt is
\* preceded by this attempt's own download and upload.
C19_FalsyPublishAborts ==
    /\ (OnItem /\ ilog.postOut # <<>> /\ ilog.postOut[1] \in {"False", "raise"}) =>
          /\ ilog.errors = <<SocialPostFailed>>
          /\ ilog.move = <<>>
          /\ ilog.remove = <<>>
          /\ ilog.confirmations = <<>>
          /\ CurItem.id \notin seen_ids
          /\ CurItem.id \in folder
          /\ ItemDone
    /\ \A i \in retryable : posted[i] = 0 => (i \notin seen_ids /\ i \in folder)
    /\ InCycle => \A i \in retryable :
          (i \in IdsOf(listed) /\ posted[i] = 0) => i \in IdsOf(images)
    /\ (OnItem /\ ilog.post # <<>>) =>
          /\ ilog.download = <<CurItem.id>>
          /\ ilog.downloadOut = <<"ok">>
          /\ ilog.upload = <<PathOf(CurItem)>>
          /\ ilog.uploadOut = <<UrlOf(CurItem)>>
          /\ ilog.post = << <<UrlOf(CurItem), CaptionOf(CurItem)>> >>

\* An image whose publish returned False in the first cycle has been
\* downloaded and uploaded again in the second and is about to be published.
C19_Witness ==
    /\ cyc = 2
    /\ ipc = "post"
    /\ CurItem.id \in retryable
    /\ ilog.download = <<CurItem.id>>
    /\ ilog.uploadOut = <<UrlOf(CurItem)>>
    /\ ilog.post = <<>>

\* Some stage of the item failed.
StageFailed(l) ==
    \/ l.downloadOut = <<"raise">>
    \/ l.metaOut = <<"raise">>
    \/ l.renderOut = <<"raise">>
    \/ (l.uploadOut # <<>> /\ l.uploadOut[1] \in {None, "raise"})
    \/ (l.postOut # <<>> /\ l.postOut[1] \in {"False", "raise"})
    \/ (l.moveOut # <<>> /\ l.moveOut[1] \in {"rejected", "raise"})

\* C20 as stated: a failure of the download, metadata/caption, upload,
\* publish or archive stage gives exactly one failure notification for the
\* item and aborts the item (no success notification, id not in seen_ids),
\* and the loop goes on with the next listed item.
C20_OneFailureNotification ==
    /\ (ItemDone /\ StageFailed(ilog)) =>
          /\ Len(ilog.errors) = 1
          /\ ilog.confirmations = <<>>
          /\ CurItem.id \notin seen_ids
    /\ ipc = "excel" => ipos = Len(images)

\* Every stage of the item succeeded.
AllStagesOk(l) ==
    /\ l.downloadOut = <<"ok">>
    /\ l.metaOut = <<"ok">>
    /\ l.renderOut = <<"ok">>
    /\ l.uploadOut # <<>> /\ l.uploadOut[1] \notin {None, "raise"}
    /\ l.postOut = <<"True">>
    /\ l.moveOut = <<"ok">>
    /\ l.removeOut = <<"ok">>

FullOrder ==
    <<"download", "extract_metadata", "generate_post_text", "upload", "post",
      "move", "remove", "send_confirmation", "seen_ids.add">>

\* C21: the callees of an item are called in the order download, metadata
\* extraction, caption rendering, upload, publish, move, deletion, success
\* notification, seen_ids.add, none twice; for an item whose stages all
\* succeed the whole sequence has run, publish got this item's upload URL
\* and caption, the file deleted is the one downloaded, no failure
\* notification was sent and the id is in seen_ids.
C21_StageOrder ==
    /\ OnItem =>
          /\ Len(ilog.order) <= Len(FullOrder)
          /\ ilog.order = SubSeq(FullOrder, 1, Len(ilog.order))
    /\ (ItemDone /\ AllStagesOk(ilog)) =>
          /\ ilog.order = FullOrder
          /\ ilog.download = <<CurItem.id>>
          /\ ilog.meta = <<PathOf(CurItem)>>
          /\ ilog.render = <<CurItem.id>>
          /\ ilog.upload = <<PathOf(CurItem)>>
          /\ ilog.post = << <<ilog.uploadOut[1], CaptionOf(CurItem)>> >>
          /\ ilog.move = <<CurItem.id>>
          /\ ilog.remove = <<PathOf(CurItem)>>
          /\ ilog.errors = <<>>
          /\ ilog.confirmations = <<"Susi Post Created">>
          /\ CurItem.id \in seen_ids
          /\ CurItem.id \notin files

\* The second of two items has run through all its stages.
C21_Witness ==
    /\ ItemDone
    /\ ipos = 2
    /\ AllStagesOk(ilog)
    /\ ilog.order = FullOrder
    /\ ilog.post = << <<UrlOf(Item(2)), CaptionOf(Item(2))>> >>
    /\ seen_ids = {2}

\* The order the claim gives to one iteration of the polling loop.
CycleOrder ==
    <<"keep_onedrive_token_alive", "list_onedrive_images",
      "process_excel_topics", "sleep">>

\* C22: each iteration of the polling loop refreshes the keep-alive
\* credential, then lists the images, then runs the image pipeline, then the
\* content pipeline, then sleeps: what an iteration has done so far is
\* always a beginning of that sequence, and the content pipeline starts only
\* after the image pipeline has returned.
C22_CycleOrder ==
    /\ Len(steps) <= Len(CycleOrder)
    /\ steps = SubSeq(CycleOrder, 1, Len(steps))
    /\ InCycle /\ ipc # "excel" =>
          \A k \in DOMAIN steps : steps[k] # "process_excel_topics"

\* C23: once the polling loop has started, no failure of a collaborator
\* ends it: main is never left through an error of the listing, of the
\* credential refresh or of the content pipeline.
C23_LoopNeverEnds == ipc # "crashed"

(***************************************************************************)
(* main.py, schedule mode, with config.DAY_MAP and the `schedule` library. *)
(***************************************************************************)

\* config.py, DAY_MAP: one Job object per weekday, created once when the
\* module is imported (schedule.every().monday, ...).  A Job object is
\* identified with its weekday; two of the seven weekdays are modelled.
DAY_MAP == {"monday", "tuesday"}

\* The values the configuration can hold.
DayValues == DAY_MAP \cup {"funday"}
TimeValues == {"09:00", "10:00"}
ModeValues == {"polling", "schedule", "cron"}

\* The calendar: the slots of one week, repeated week after week.
Week ==
    << <<"monday", "09:00">>, <<"monday", "10:00">>,
       <<"tuesday", "09:00">>, <<"tuesday", "10:00">> >>
WeekLen == Len(Week)
SlotOf(k) == Week[((k - 1) % WeekLen) + 1]
Slots == 1..MaxTicks

\* Job._schedule_next_run of a weekly job: the first slot after t on the
\* job's weekday at its at_time.
NextRun(day, time, t) ==
    CHOOSE k \in (t + 1)..(t + WeekLen) : SlotOf(k) = <<day, time>>

\* An unknown weekday that is bound all the same.
KnownAlways(day) == TRUE

\* main, lines 403 and 408: `if img_day in DAY_MAP`.
Known(day) == day \in DAY_MAP

\* DAY_MAP[day].at(time).do(func) on a scheduler state st = [job_func,
\* at_time, next_run, jobs]: at() sets at_time of the Job object, do() sets
\* its job_func, computes next_run and appends the object to the
\* scheduler's jobs.
Bind(st, day, time, func, t) ==
    [ job_func |-> [st.job_func EXCEPT ![day] = func],
      at_time  |-> [st.at_time EXCEPT ![day] = time],
      next_run |-> [st.next_run EXCEPT ![day] = NextRun(day, time, t)],
      jobs     |-> Append(st.jobs, day) ]

\* What a pipeline called by the scheduler can do: return, return after it
\* has sent a notification, or raise.
JobAnswers == {"ok", "notified", "raise"}

\* The state after the configuration has been loaded, before main looks at
\* the trigger mode.
InitSchedule ==
    /\ RetryIdle
    /\ ExcelIdle
    /\ ImagesIdle
    /\ NotifyIdle
    /\ UploadIdle
    /\ AuxIdle
    /\ trigger_mode \in ModeValues
    /\ img_day \in DayValues
    /\ img_time \in TimeValues
    /\ post_day \in DayValues
    /\ post_time \in TimeValues
    /\ spc = "start"
    /\ job_func = [d \in DAY_MAP |-> None]
    /\ at_time = [d \in DAY_MAP |-> None]
    /\ next_run = [d \in DAY_MAP |-> None]
    /\ jobs = <<>>
    /\ runnable = <<>>
    /\ now = 0
    /\ ran = [k \in Slots |-> <<>>]
    /\ notified = FALSE
    /\ error = None

\* main, lines 386, 395 and 417-419: the branch on trigger_mode.
StartMain ==
    /\ spc = "start"
    /\ IF trigger_mode = "polling" THEN spc' = "polling" /\ UNCHANGED error
       ELSE IF trigger_mode = "schedule"
            THEN spc' = "bind_image" /\ UNCHANGED error
            ELSE /\ spc' = "fatal"
                 /\ error' = <<"ValueError", "Unknown trigger_mode", trigger_mode>>
    /\ UNCHANGED <<trigger_mode, img_day, img_time, post_day, post_time,
                   job_func, at_time, next_run, jobs, runnable, now, ran,
                   notified>>
    /\ UNCHANGED <<retryVars, excelVars, imageVars, notifyVars, uploadVars,
                   auxVars>>

\* main, lines 403-407: the image workflow's job.
BindImage ==
    /\ spc = "bind_image"
    /\ IF Known(img_day)
       THEN LET st == Bind([job_func |-> job_func, at_time |-> at_time,
                            next_run |-> next_run, jobs |-> jobs],
                           img_day, img_time, "process_images", now)
            IN /\ job_func' = st.job_func
               /\ at_time' = st.at_time
               /\ next_run' = st.next_run
               /\ jobs' = st.jobs
               /\ spc' = "bind_post"
               /\ UNCHANGED error
       ELSE /\ spc' = "fatal"
            /\ error' = <<"ValueError", "Unknown image workflow schedule day",
                          img_day>>
            /\ UNCHANGED <<job_func, at_time, next_run, jobs>>
    /\ UNCHANGED <<trigger_mode, img_day, img_time, post_day, post_time,
                   runnable, now, ran, notified>>
    /\ UNCHANGED <<retryVars, excelVars, imageVars, notifyVars, uploadVars,
                   auxVars>>

\* main, lines 408-413: the content workflow's job.
BindPost ==
    /\ spc = "bind_post"
    /\ IF Known(post_day)
       THEN LET st == Bind([job_func |-> job_func, at_time |-> at_time,
                            next_run |-> next_run, jobs |-> jobs],
                           post_day, post_time, "process_excel_topics", now)
            IN /\ job_func' = st.job_func
               /\ at_time' = st.at_time
               /\ next_run' = st.next_run
               /\ jobs' = st.jobs
               /\ spc' = "run_pending"
               /\ UNCHANGED error
       ELSE /\ spc' = "fatal"
            /\ error' = <<"ValueError",
                          "Unknown Instagram workflow schedule day", post_day>>
            /\ UNCHANGED <<job_func, at_time, next_run, jobs>>
    /\ UNCHANGED <<trigger_mode, img_day, img_time, post_day, post_time,
                   runnable, now, ran, notified>>
    /\ UNCHANGED <<retryVars, excelVars, imageVars, notifyVars, uploadVars,
                   auxVars>>

\* Insertion of job j into a list of jobs sorted by next_run (Job.__lt__),
\* after the jobs that are not later than it: sorted() is stable.
RECURSIVE InsertJob(_, _)
InsertJob(j, js) ==
    IF js = <<>> THEN <<j>>
    ELSE IF next_run[j] < next_run[Head(js)] THEN <<j>> \o js
         ELSE <<Head(js)>> \o InsertJob(j, Tail(js))

RECURSIVE SortedJobs(_)
SortedJobs(js) ==
    IF js = <<>> THEN <<>>
    ELSE InsertJob(js[Len(js)], SortedJobs(SubSeq(js, 1, Len(js) - 1)))

\* Job.should_run: datetime.now() >= next_run.
ShouldRun(j) == now >= next_run[j]

\* The entries of jobs whose Job object should run, in the order of jobs.
RECURSIVE RunnableOf(_)
RunnableOf(js) ==
    IF js = <<>> THEN <<>>
    ELSE (IF ShouldRun(Head(js)) THEN <<Head(js)>> ELSE <<>>)
         \o RunnableOf(Tail(js))

\* main, line 415, schedule.run_pending: sorted(job for job in self.jobs if
\* job.should_run) is built before the first job runs.
RunPending ==
    /\ spc = "run_pending"
    /\ now >= 1
    /\ runnable' = SortedJobs(RunnableOf(jobs))
    /\ spc' = "run_job"
    /\ UNCHANGED <<trigger_mode, img_day, img_time, post_day, post_time,
                   job_func, at_time, next_run, jobs, now, ran, notified,
                   error>>
    /\ UNCHANGED <<retryVars, excelVars, imageVars, notifyVars, uploadVars,
                   auxVars>>

\* run_pending's loop, Scheduler._run_job and Job.run: call job_func, then
\* compute the next run.  An error of the pipeline leaves run_pending and
\* main.
RunJob ==
    /\ spc = "run_job"
    /\ IF runnable = <<>>
       THEN /\ spc' = "sleep"
            /\ UNCHANGED <<next_run, runnable, ran, notified, error>>
       ELSE LET j == Head(runnable)
            IN \E ans \in JobAnswers :
                 /\ ran' = [ran EXCEPT ![now] = Append(@, job_func[j])]
                 /\ notified' = (notified \/ ans = "notified")
                 /\ IF ans = "raise"
                    THEN /\ spc' = "crashed"
                         /\ error' = <<"Exception", job_func[j], "">>
                         /\ UNCHANGED <<next_run, runnable>>
                    ELSE /\ next_run' = [next_run EXCEPT
                                            ![j] = NextRun(j, at_time[j], now)]
                         /\ runnable' = Tail(runnable)
                         /\ UNCHANGED <<spc, error>>
    /\ UNCHANGED <<trigger_mode, img_day, img_time, post_day, post_time,
                   job_func, at_time, jobs, now>>
    /\ UNCHANGED <<retryVars, excelVars, imageVars, notifyVars, uploadVars,
                   auxVars>>

\* main, line 416: time.sleep(30); the clock is in the same slot afterwards
\* or has reached the next one.  Before the first run_pending the clock
\* reaches the first slot.
Sleep ==
    /\ \/ spc = "sleep" /\ now' \in {now, now + 1}
       \/ spc = "run_pending" /\ now = 0 /\ now' = 1
    /\ now' <= MaxTicks
    /\ spc' = "run_pending"
    /\ UNCHANGED <<trigger_mode, img_day, img_time, post_day, post_time,
                   job_func, at_time, next_run, jobs, runnable, ran, notified,
                   error>>
    /\ UNCHANGED <<retryVars, excelVars, imageVars, notifyVars, uploadVars,
                   auxVars>>

NextSchedule ==
    \/ StartMain
    \/ BindImage
    \/ BindPost
    \/ RunPending
    \/ RunJob
    \/ Sleep

SpecSchedule == InitSchedule /\ [][NextSchedule]_vars

(***************************************************************************)
(* Claims about the schedule mode (checked under SpecSchedule).            *)
(***************************************************************************)

\* The scheduler loop is running.
InLoop == spc \in {"run_pending", "run_job", "sleep"}

\* Slot k is over for the scheduler: the clock has left it, or run_pending
\* has returned in it.
SlotOver(k) == k < now \/ (k = now /\ spc = "sleep")

\* How often the scheduler called pipeline f in slot k.
RunsIn(k, f) == Cardinality({i \in DOMAIN ran[k] : ran[k][i] = f})

\* The Job objects in the scheduler's jobs.
JobSet == {jobs[i] : i \in DOMAIN jobs}

\* C24: in schedule mode with valid weekdays, two standing jobs exist after
\* startup, one bound to the image pipeline and one to the content pipeline,
\* and each pipeline runs exactly once in every slot of its own weekday and
\* time and in no other slot.
C24_TwoStandingJobs ==
    InLoop =>
       /\ Len(jobs) = 2
       /\ Cardinality(JobSet) = 2
       /\ {job_func[j] : j \in JobSet} = {"process_images", "process_excel_topics"}
       /\ \A k \in Slots :
            /\ RunsIn(k, "process_images") <=
                  (IF SlotOf(k) = <<img_day, img_time>> THEN 1 ELSE 0)
            /\ RunsIn(k, "process_excel_topics") <=
                  (IF SlotOf(k) = <<post_day, post_time>> THEN 1 ELSE 0)
            /\ SlotOver(k) =>
                  /\ RunsIn(k, "process_images") =
                        (IF SlotOf(k) = <<img_day, img_time>> THEN 1 ELSE 0)
                  /\ RunsIn(k, "process_excel_topics") =
                        (IF SlotOf(k) = <<post_day, post_time>> THEN 1 ELSE 0)

\* The same statement for configurations that name two different weekdays.
C24_DistinctDays == img_day # post_day => C24_TwoStandingJobs

\* C25: an unknown weekday of either workflow, or an unknown trigger mode,
\* ends main with a ValueError before the scheduler loop is entered: no
\* pipeline has run and no notification has been sent.
C25_FatalAtStartup ==
    LET bad == \/ trigger_mode \notin {"polling", "schedule"}
               \/ /\ trigger_mode = "schedule"
                  /\ (img_day \notin DAY_MAP \/ post_day \notin DAY_MAP)
    IN /\ bad => /\ spc \in {"start", "bind_image", "bind_post", "fatal"}
                 /\ \A k \in Slots : ran[k] = <<>>
                 /\ ~notified
                 /\ now = 0
       /\ spc = "fatal" => bad /\ error[1] = "ValueError"
       /\ (InLoop \/ spc = "crashed") => ~bad

\* The image weekday is known, the content weekday is not: main ends with
\* the error of line 412 after the image job has been registered.
C25_Witness ==
    /\ spc = "fatal"
    /\ trigger_mode = "schedule"
    /\ img_day = "monday"
    /\ post_day = "funday"
    /\ error = <<"ValueError", "Unknown Instagram workflow schedule day", "funday">>
    /\ jobs = <<"monday">>
    /\ ~notified

(***************************************************************************)
(* main.send_error / main.send_confirmation and email_utils.py             *)
(***************************************************************************)

ProviderValues == {"gmail", "smtp", ""}
KindValues == {"send_error", "send_confirmation"}
TransportAnswers == {"ok", "raise"}

\* tenacity's wait_exponential after the n-th attempt:
\* multiplier * 2^(n-1), kept between min and max.
WaitExponential(n) ==
    LET w == WaitMultiplier * Pow(2, n - 1)
    IN IF w < WaitMin THEN WaitMin ELSE IF w > WaitMax THEN WaitMax ELSE w

\* A handler that lets the error go on to the caller.
Reraised(e) == "raised"

\* email_utils.py, lines 159-163, and main.py, lines 345-346 and 368-369:
\* `except Exception as e: logging.error(...)`.
Swallowed(e) == "returned"

\* A gateway call is about to be made by a pipeline.
InitNotify ==
    /\ RetryIdle
    /\ ExcelIdle
    /\ ImagesIdle
    /\ ScheduleIdle
    /\ UploadIdle
    /\ AuxIdle
    /\ provider \in ProviderValues
    /\ nkind \in KindValues
    /\ gmail_out \in TransportAnswers
    /\ smtp_out \in [1..StopAfterAttempt -> TransportAnswers]
    /\ npc = "call"
    /\ attempts = <<>>
    /\ waits = <<>>
    /\ nlog = <<>>
    /\ nresult = "none"

\* main.send_confirmation (lines 340-348) and main.send_error (lines
\* 363-371): with provider gmail one call of send_gmail, whose error is
\* logged; otherwise send_error_email.
GatewayCall ==
    /\ npc = "call"
    /\ IF provider = "gmail"
       THEN /\ attempts' = Append(attempts, <<"gmail", gmail_out>>)
            /\ IF gmail_out = "ok"
               THEN /\ nlog' = Append(nlog, "sent via Gmail API")
                    /\ nresult' = "returned"
               ELSE /\ nlog' = Append(nlog, "Failed to send via Gmail API")
                    /\ nresult' = Swallowed("gmail")
            /\ npc' = "done"
       ELSE /\ npc' = "attempt"
            /\ UNCHANGED <<attempts, nlog, nresult>>
    /\ UNCHANGED <<provider, nkind, gmail_out, smtp_out, waits>>
    /\ UNCHANGED <<retryVars, excelVars, imageVars, scheduleVars, uploadVars,
                   auxVars>>

\* The SMTP sessions made so far.
SmtpCount(as) == Cardinality({i \in DOMAIN as : as[i][1] = "smtp"})

\* email_utils.send_error_email with one attempt of
\* _send_error_email_with_retry (lines 96-143): Gmail first when the provider
\* is gmail, then SMTP; an SMTP error is logged and raised again, and
\* tenacity waits and repeats until the third attempt, whose error
\* send_error_email (lines 159-163) logs.
SendAttempt ==
    /\ npc = "attempt"
    /\ LET n == SmtpCount(attempts) + 1
           viaGmail == provider = "gmail"
           a1 == IF viaGmail THEN Append(attempts, <<"gmail", gmail_out>>)
                 ELSE attempts
           l1 == IF viaGmail /\ gmail_out = "raise"
                 THEN Append(nlog, "Failed to send via Gmail API") ELSE nlog
       IN IF viaGmail /\ gmail_out = "ok"
          THEN /\ attempts' = a1
               /\ nlog' = Append(nlog, "sent via Gmail API")
               /\ nresult' = "returned"
               /\ npc' = "done"
               /\ UNCHANGED waits
          ELSE /\ attempts' = Append(a1, <<"smtp", smtp_out[n]>>)
               /\ IF smtp_out[n] = "ok"
                  THEN /\ nlog' = Append(l1, "sent via SMTP")
                       /\ nresult' = "returned"
                       /\ npc' = "done"
                       /\ UNCHANGED waits
                  ELSE IF n >= StopAfterAttempt
                  THEN /\ nlog' = l1 \o <<"Failed to send via SMTP",
                                          "All attempts failed">>
                       /\ nresult' = Swallowed("smtp")
                       /\ npc' = "done"
                       /\ UNCHANGED waits
                  ELSE /\ nlog' = Append(l1, "Failed to send via SMTP")
                       /\ waits' = Append(waits, WaitExponential(n))
                       /\ UNCHANGED <<npc, nresult>>
    /\ UNCHANGED <<provider, nkind, gmail_out, smtp_out>>
    /\ UNCHANGED <<retryVars, excelVars, imageVars, scheduleVars, uploadVars,
                   auxVars>>

NextNotify ==
    \/ GatewayCall
    \/ SendAttempt

SpecNotify == InitNotify /\ [][NextNotify]_vars

(***************************************************************************)
(* Claims about the notification gateway (checked under SpecNotify).       *)
(***************************************************************************)

\* The transport calls that failed, and those that succeeded.
FailedAttempts == {i \in DOMAIN attempts : attempts[i][2] = "raise"}
SentAttempts == {i \in DOMAIN attempts : attempts[i][2] = "ok"}
Via(t) == {i \in DOMAIN attempts : attempts[i][1] = t}

\* C26: a failure of the notification transport, for either kind of
\* notification and any provider setting, is logged inside the gateway and
\* never reaches the pipeline: the gateway call never ends with an error,
\* and once it has ended it has returned, with one log line per failed
\* transport call.
C26_TransportFailureSwallowed ==
    /\ nresult # "raised"
    /\ npc = "done" =>
          /\ nresult = "returned"
          /\ \A i \in FailedAttempts :
                \E k \in DOMAIN nlog :
                   nlog[k] = (IF attempts[i][1] = "gmail"
                              THEN "Failed to send via Gmail API"
                              ELSE "Failed to send via SMTP")
          /\ Cardinality(FailedAttempts) <=
                Cardinality({k \in DOMAIN nlog :
                               nlog[k] \in {"Failed to send via Gmail API",
                                            "Failed to send via SMTP"}})

\* A success notification with the SMTP provider whose three sessions all
\* fail: the call has returned.
C26_Witness ==
    /\ npc = "done"
    /\ nkind = "send_confirmation"
    /\ provider = "smtp"
    /\ attempts = << <<"smtp", "raise">>, <<"smtp", "raise">>, <<"smtp", "raise">> >>
    /\ nresult = "returned"
    /\ nlog[Len(nlog)] = "All attempts failed"

\* C27: whenever the primary transport (Gmail API) has failed for a
\* notification, the fallback transport (SMTP) is attempted for that
\* notification.
C27_FallbackAfterPrimary ==
    npc = "done" =>
       \A i \in Via("gmail") :
          attempts[i][2] = "raise" =>
             \E k \in Via("smtp") : k > i

\* C29: every notification is attempted up to three times: a call that has
\* ended without a successful transport call has made three attempts, with
\* a wait between two attempts.
C29_ThreeAttempts ==
    npc = "done" =>
       /\ Len(attempts) <= StopAfterAttempt
       /\ SentAttempts = {} =>
             /\ Len(attempts) = StopAfterAttempt
             /\ Len(waits) = StopAfterAttempt - 1

(***************************************************************************)
(* services/s3.py: upload_file_to_s3 under the retry decorator             *)
(***************************************************************************)

\* What boto3 does in one invocation: the client cannot be built (line 50,
\* outside the try), upload_file raises a ClientError or another error
\* (lines 59-62, inside the try), or the upload goes through.
S3Answers == {"client_raise", "ClientError", "Exception", "ok"}

\* The body of upload_file_to_s3 as the decorator sees it: an error of the
\* client construction propagates; an error of upload_file is logged and
\* None is returned (lines 63-70); otherwise the URL is returned.
UploadBody(a) == IF a = "client_raise" THEN "retryable" ELSE "ok"

\* The value upload_file_to_s3 returns in an invocation that returns.
UploadValue(a) == IF a = "ok" THEN "url" ELSE None

InitUpload ==
    /\ ExcelIdle
    /\ ImagesIdle
    /\ ScheduleIdle
    /\ NotifyIdle
    /\ AuxIdle
    /\ s3_answers \in [1..S3Tries -> S3Answers]
    /\ tries = S3Tries
    /\ delay = S3Delay
    /\ backoff = S3Backoff
    /\ pattern = [i \in 1..S3Tries |-> UploadBody(s3_answers[i])]
    /\ mtries = 0 /\ mdelay = 0
    /\ rpc = "idle"
    /\ ncalls = 0
    /\ sleeps = <<>>
    /\ result = <<"none", 0>>

SpecUpload == InitUpload /\ [][NextRetry]_vars

(***************************************************************************)
(* Claims about the upload (checked under SpecUpload).                     *)
(***************************************************************************)

\* What the image pipeline gets from its call of upload_file_to_s3: an
\* error, None, or a URL.
Uploaded ==
    IF result[1] = "raise" THEN "raise"
    ELSE UploadValue(s3_answers[result[2]])

\* C28: a failure of the upload is retried by the retry wrapper and becomes
\* a stage failure (None or an error seen by the image pipeline) only after
\* the three attempts, with the waits of the backoff between them.
C28_UploadRetried ==
    (rpc = "done" /\ Uploaded # "url") =>
       /\ ncalls = S3Tries
       /\ sleeps = <<S3Delay, S3Delay * S3Backoff>>

(***************************************************************************)
(* Further claims about the image pipeline (checked under SpecImages).     *)
(***************************************************************************)

\* C31: seen_ids only grows during a run: no step of the polling loop or of
\* the image pipeline removes an id, the step that ends an item with a
\* failure leaves the set as it was, and the set is always a superset of
\* what it held when the cycle started.
C31_SeenOnlyGrows ==
    /\ [](seen0 \subseteq seen_ids)
    /\ [][ /\ seen_ids \subseteq seen_ids'
           /\ (ipc # "next" /\ ipc' = "next" /\ StageFailed(ilog'))
                 => seen_ids' = seen_ids ]_vars

\* The same statement for the items the pipeline itself gave up (those that
\* got a failure notification).
C31_AbortedLeavesSeen ==
    /\ [](seen0 \subseteq seen_ids)
    /\ [][ /\ seen_ids \subseteq seen_ids'
           /\ (ipc # "next" /\ ipc' = "next" /\ ilog'.errors # <<>>)
                 => seen_ids' = seen_ids ]_vars

\* C37: within one polling run, an image for which poster.post has returned
\* success is not passed to poster.post again in a later cycle, whatever the
\* steps after the publish do: no image is published with success twice, and
\* no item is offered to the pipeline after its publish has succeeded.
C37_PublishedOnce ==
    /\ \A i \in ImageIds : posted[i] <= 1
    /\ (OnItem /\ ipc \in {"download", "meta", "upload", "post"})
          => posted[CurItem.id] = 0

\* The same statement for runs in which no step after a publish raises.
C37_NoRaiseAfterPublish ==
    [](~(OnItem /\ (ilog.moveOut = <<"raise">> \/ ilog.removeOut = <<"raise">>)))
       => []C37_PublishedOnce

Header == <<"Content", "processed">>
ContentCells == {"AI", "ML"}
ProcessedCells == {"", "x"}
DataRows == {<<c, p>> : c \in ContentCells, p \in ProcessedCells}

\* The answers of usedRange: no values at all, or the header followed by
\* data rows.
ValuesAnswers ==
    {<<>>} \cup
    UNION { {<<Header>> \o d : d \in [1..n -> DataRows]} : n \in 0..MaxValues }

\* dict(zip(header, row)): the mapping from header name to cell value; zip
\* stops at the shorter of the two.
DictZip(header, row) ==
    LET n == IF Len(header) < Len(row) THEN Len(header) ELSE Len(row)
    IN [h \in {header[k] : k \in 1..n} |->
          row[CHOOSE k \in 1..n :
                 /\ header[k] = h
                 /\ \A j \in 1..n : header[j] = h => j <= k]]

\* row.get(key)
DictGet(row, key) == IF key \in DOMAIN row THEN row[key] ELSE None

\* A filter that keeps every row.
KeepsEveryRow(row) == TRUE

\* Line 55: `not row.get("processed")`.
NotProcessed(row) == ~Truthy(DictGet(row, "processed"))

\* Lines 48-55 of get_excel_rows.
get_excel_rows_values(vals) ==
    IF vals = <<>> \/ Len(vals) < 2 THEN <<>>
    ELSE LET header == vals[1]
             dicts == [i \in 1..(Len(vals) - 1) |-> DictZip(header, vals[i + 1])]
         IN SelectSeq(dicts, NotProcessed)

InitFetch ==
    /\ RetryIdle
    /\ ExcelIdle
    /\ ImagesIdle
    /\ ScheduleIdle
    /\ NotifyIdle
    /\ UploadIdle
    /\ IgIdle
    /\ CycleIdle
    /\ values \in ValuesAnswers
    /\ fetched = <<>>
    /\ fpc = "call"

\* One call of get_excel_rows.
GetExcelRows ==
    /\ fpc = "call"
    /\ fetched' = get_excel_rows_values(values)
    /\ fpc' = "done"
    /\ UNCHANGED values
    /\ UNCHANGED <<retryVars, excelVars, imageVars, scheduleVars, notifyVars,
                   uploadVars, igVars, cycleVars>>

NextFetch == GetExcelRows

SpecFetch == InitFetch /\ [][NextFetch]_vars

(***************************************************************************)
(* Claims about get_excel_rows (checked under SpecFetch).                  *)
(***************************************************************************)

\* The positions in values of the data rows whose processed cell is empty.
OpenRows == {i \in 2..Len(values) : values[i][2] = ""}

\* The k-th of them, in sheet order.
OpenRow(k) == CHOOSE i \in OpenRows : Cardinality({j \in OpenRows : j <= i}) = k

\* C32: get_excel_rows returns exactly the data rows whose processed cell is
\* empty, in sheet order, each as a mapping from header name to cell value;
\* a row with a non-empty processed cell is never returned, and values with
\* only a header, or no values, give the empty list.
C32_UnprocessedRowsInOrder ==
    fpc = "done" =>
       /\ Len(fetched) = Cardinality(OpenRows)
       /\ \A k \in DOMAIN fetched :
             /\ DOMAIN fetched[k] = {"Content", "processed"}
             /\ fetched[k]["Content"] = values[OpenRow(k)][1]
             /\ fetched[k]["processed"] = ""
       /\ Len(values) < 2 => fetched = <<>>

\* A processed row between two unprocessed ones is left out and the order
\* of the other two is kept.
C32_Witness ==
    /\ fpc = "done"
    /\ values = <<Header, <<"ML", "">>, <<"AI", "x">>, <<"AI", "">> >>
    /\ Len(fetched) = 2
    /\ fetched[1]["Content"] = "ML"
    /\ fetched[2]["Content"] = "AI"

(***************************************************************************)
(* instagram.py: wait_for_media_ready and post_to_instagram                *)
(***************************************************************************)

\* What a status request gives: a status code, or an error (caught at lines
\* 45-46).
StatusAnswers == {"FINISHED", "ERROR", "IN_PROGRESS", "raise"}

\* What the media request gives: 200 with an id, 200 without an id, another
\* status, or an error of the request.
CreateAnswers == {"id", "no_id", "not_200", "raise"}

\* What the media_publish request gives.
PublishAnswers == {"200", "not_200", "raise"}

\* A loop test that lets the loop run once more when the ceiling is reached.
WaitGuardInclusive(w, m) == w <= m

\* Line 35: `while waited < max_wait`.
WaitGuard(w, m) == w < m

\* Where wait_for_media_ready returns to.
AfterWait == IF entry = "post_to_instagram" THEN "check" ELSE "done"

\* The retry wrapper of post_to_instagram (tries=3): an error of the first
\* two invocations is caught and the function is invoked again; the error
\* of the third goes to the caller.
RetriesLeft(a) == a < IgTries

InitInstagram ==
    /\ RetryIdle
    /\ ExcelIdle
    /\ ImagesIdle
    /\ ScheduleIdle
    /\ NotifyIdle
    /\ UploadIdle
    /\ FetchIdle
    /\ CycleIdle
    /\ entry \in {"wait_for_media_ready", "post_to_instagram"}
    /\ IF entry = "wait_for_media_ready"
       THEN /\ max_wait \in 0..MaxWait
            /\ poll_interval \in 1..MaxPollInterval
            /\ qpc = "wait"
            /\ attempt = 0
       ELSE /\ max_wait = 0
            /\ poll_interval = 0
            /\ qpc = "create"
            /\ attempt = 1
    /\ waited = 0
    /\ polls = 0
    /\ last_status = "none"
    /\ wres = "none"
    /\ created = FALSE
    /\ ready = FALSE
    /\ published = "none"
    /\ pres = "none"

\* post_to_instagram, lines 81-101: the media request, and with an id the
\* call of wait_for_media_ready(creation_id, access_token, 60, 5).
CreateMedia ==
    /\ qpc = "create"
    /\ ready' = FALSE
    /\ published' = "none"
    /\ \E ans \in CreateAnswers :
         IF ans = "id"
         THEN /\ created' = TRUE
              /\ max_wait' = PostMaxWait
              /\ poll_interval' = PostPollInterval
              /\ waited' = 0
              /\ polls' = 0
              /\ last_status' = "none"
              /\ wres' = "none"
              /\ qpc' = "wait"
              /\ UNCHANGED <<attempt, pres>>
         ELSE /\ created' = FALSE
              /\ UNCHANGED <<max_wait, poll_interval, waited, polls,
                             last_status, wres>>
              /\ IF ans = "raise"
                 THEN IF RetriesLeft(attempt)
                      THEN /\ attempt' = attempt + 1
                           /\ UNCHANGED <<qpc, pres>>
                      ELSE /\ pres' = "raise"
                           /\ qpc' = "done"
                           /\ UNCHANGED attempt
                 ELSE /\ pres' = "False"
                      /\ qpc' = "done"
                      /\ UNCHANGED attempt
    /\ UNCHANGED entry
    /\ UNCHANGED <<retryVars, excelVars, imageVars, scheduleVars, notifyVars,
                   uploadVars, fetchVars, cycleVars>>

\* wait_for_media_ready, lines 35-48: one iteration of the loop.
PollStatus ==
    /\ qpc = "wait"
    /\ WaitGuard(waited, max_wait)
    /\ polls' = polls + 1
    /\ \E st \in StatusAnswers :
         /\ last_status' = st
         /\ IF st = "FINISHED"
            THEN wres' = "True" /\ qpc' = AfterWait /\ UNCHANGED waited
            ELSE IF st = "ERROR"
            THEN wres' = "False" /\ qpc' = AfterWait /\ UNCHANGED waited
            ELSE /\ waited' = waited + poll_interval
                 /\ UNCHANGED <<wres, qpc>>
    /\ UNCHANGED <<entry, max_wait, poll_interval, attempt, created, ready,
                   published, pres>>
    /\ UNCHANGED <<retryVars, excelVars, imageVars, scheduleVars, notifyVars,
                   uploadVars, fetchVars, cycleVars>>

\* wait_for_media_ready, lines 49-50: the loop has ended.
WaitTimeout ==
    /\ qpc = "wait"
    /\ ~WaitGuard(waited, max_wait)
    /\ wres' = "False"
    /\ qpc' = AfterWait
    /\ UNCHANGED <<entry, max_wait, poll_interval, waited, polls, last_status,
                   attempt, created, ready, published, pres>>
    /\ UNCHANGED <<retryVars, excelVars, imageVars, scheduleVars, notifyVars,
                   uploadVars, fetchVars, cycleVars>>

\* post_to_instagram, lines 101-116: give up when the media is not ready,
\* otherwise the publish request.
PublishMedia ==
    /\ qpc = "check"
    /\ IF wres # "True"
       THEN /\ pres' = "False"
            /\ qpc' = "done"
            /\ UNCHANGED <<ready, published, attempt>>
       ELSE /\ ready' = TRUE
            /\ \E ans \in PublishAnswers :
                 /\ published' = ans
                 /\ IF ans = "raise"
                    THEN IF RetriesLeft(attempt)
                         THEN /\ attempt' = attempt + 1
                              /\ qpc' = "create"
                              /\ UNCHANGED pres
                         ELSE /\ pres' = "raise"
                              /\ qpc' = "done"
                              /\ UNCHANGED attempt
                    ELSE /\ pres' = (IF ans = "200" THEN "True" ELSE "False")
                         /\ qpc' = "done"
                         /\ UNCHANGED attempt
    /\ UNCHANGED <<entry, max_wait, poll_interval, waited, polls, last_status,
                   wres, created>>
    /\ UNCHANGED <<retryVars, excelVars, imageVars, scheduleVars, notifyVars,
                   uploadVars, fetchVars, cycleVars>>

NextInstagram ==
    \/ CreateMedia
    \/ PollStatus
    \/ WaitTimeout
    \/ PublishMedia

SpecInstagram == InitInstagram /\ [][NextInstagram]_vars

(***************************************************************************)
(* Claims about instagram.py (checked under SpecInstagram).                *)
(***************************************************************************)

\* ceil(a / b) for a >= 0 and b > 0.
Ceil(a, b) == (a + b - 1) \div b

\* C33: with poll_interval > 0, wait_for_media_ready makes at most
\* ceil(max_wait / poll_interval) status requests and then returns False; it
\* returns True only when a request reported FINISHED and returns False at
\* once on ERROR; post_to_instagram sends the publish request only after
\* the media object was created with an id and the wait returned True, and
\* returns True only if the publish request succeeded.
C33_BoundedWait ==
    /\ poll_interval > 0 =>
          /\ polls <= Ceil(max_wait, poll_interval)
          /\ wres = "True" => last_status = "FINISHED"
          /\ last_status = "ERROR" => wres = "False"
          /\ (wres = "False" /\ last_status # "ERROR") =>
                /\ polls = Ceil(max_wait, poll_interval)
                /\ waited >= max_wait
    /\ published # "none" => created /\ ready /\ wres = "True"
    /\ pres = "True" => published = "200"

\* A wait of 3 with an interval of 2 has timed out after two requests.
C33_Witness ==
    /\ entry = "wait_for_media_ready"
    /\ qpc = "done"
    /\ max_wait = 3
    /\ poll_interval = 2
    /\ polls = 2
    /\ waited = 4
    /\ wres = "False"

(***************************************************************************)
(* Further claims about the Excel pipeline (checked under SpecExcel).      *)
(***************************************************************************)

\* The sheet row that a write for row_index addresses is the one the
\* fetched row with that index was read from.
SameRow(row_index) == DataRow(CellRow(row_index)) = origin[row_index + 1]

\* C34: for a sheet with any mix of processed and unprocessed rows, the
\* cells written by write_instagram_post, write_linkedin_post and
\* mark_row_processed for the i-th fetched row belong to the sheet row that
\* this fetched row was read from.
C34_WritesHitFetchedRow ==
    /\ \A k \in DOMAIN log.igWrite : SameRow(log.igWrite[k][1])
    /\ \A k \in DOMAIN log.liWrite : SameRow(log.liWrite[k][1])
    /\ \A k \in DOMAIN log.mark : SameRow(log.mark[k])

\* The same statement for sheets without a processed row.
C34_NoProcessedRowAbove ==
    (\A i \in DOMAIN sheet : i \in {origin[k] : k \in DOMAIN origin})
       => C34_WritesHitFetchedRow

\* C36: every fetched row with content gets at least one notification in
\* the cycle that handles it: a row that ends the cycle without having been
\* marked processed got at least one failure notification, also when a
\* generation returned empty text.
C36_NoSilentRow ==
    Handled =>
       /\ log.errors # <<>> \/ log.confirmations # <<>>
       /\ log.markOut # <<"ok">> => log.errors # <<>>

\* The same statement for rows whose generations raised or returned text.
C36_NoEmptyText ==
    (/\ \A k \in DOMAIN log.igGenOut : log.igGenOut[k] # ""
     /\ \A k \in DOMAIN log.liGenOut : log.liGenOut[k] # "")
       => C36_NoSilentRow

(***************************************************************************)
(* main's polling loop around process_excel_topics, with collaborators     *)
(* that all succeed.                                                       *)
(***************************************************************************)

\* No collaborator has failed in the calls logged in l: the news service
\* answered, both generations returned text, the writes, the mark and the
\* success notification went through.
AllSucceeded(l) ==
    /\ \A k \in DOMAIN l.newsOut : l.newsOut[k] # "raise"
    /\ \A k \in DOMAIN l.igGenOut : l.igGenOut[k] \notin {"raise", ""}
    /\ \A k \in DOMAIN l.liGenOut : l.liGenOut[k] \notin {"raise", ""}
    /\ \A k \in DOMAIN l.igWriteOut : l.igWriteOut[k] = "ok"
    /\ \A k \in DOMAIN l.liWriteOut : l.liWriteOut[k] = "ok"
    /\ \A k \in DOMAIN l.markOut : l.markOut[k] = "ok"
    /\ \A k \in DOMAIN l.confirmOut : l.confirmOut[k] = "ok"

\* The sheets whose rows all have content.
ContentSheets == {sh \in InitSheets : \A i \in DOMAIN sh : sh[i].Content # ""}

InitCycles ==
    /\ InitExcel
    /\ sheet \in ContentSheets

\* A step of process_excel_topics in which no collaborator fails.
SucceedingStep ==
    /\ NextExcel
    /\ pc' # "raised"
    /\ AllSucceeded(log')

\* main, lines 393-394 and 389: process_excel_topics has returned; after the
\* sleep the loop calls it again.
NextContentCycle ==
    /\ pc = "done"
    /\ ccyc < MaxContentCycles
    /\ ccyc' = ccyc + 1
    /\ done_rows' = done_rows \cup
                    {origin[i] : i \in {k \in DOMAIN hist : "rewarded" \in hist[k]}}
    /\ pc' = "start"
    /\ rows' = <<>>
    /\ idx' = 0
    /\ content' = None
    /\ target_group' = None
    /\ news_articles' = <<>>
    /\ caption' = None
    /\ linkedin_post' = None
    /\ linkedin_success' = FALSE
    /\ origin' = <<>>
    /\ log' = EmptyLog
    /\ hist' = <<>>
    /\ UNCHANGED sheet
    /\ UNCHANGED <<retryVars, imageVars, scheduleVars, notifyVars, uploadVars,
                   fetchVars, igVars>>

NextCycles ==
    \/ SucceedingStep
    \/ NextContentCycle

\* The loop keeps running: a step that can be taken is taken.
SpecCycles == InitCycles /\ [][NextCycles]_vars /\ WF_vars(NextCycles)

(***************************************************************************)
(* Claims about repeated content cycles (checked under SpecCycles).        *)
(***************************************************************************)

\* The fetch of the current call returned no rows.
FetchWasEmpty == pc = "done" /\ rows = <<>>

\* C35: if every collaborator succeeds, then for any initial sheet whose
\* rows have content the repeated calls of process_excel_topics reach a call
\* whose fetch returns no rows, and a row for which a call sent a success
\* notification is never fetched by a later call.
C35_CyclesDrainSheet ==
    /\ <>FetchWasEmpty
    /\ [](\A k \in DOMAIN origin : origin[k] \notin done_rows)

\* The same statement for sheets that start without a processed row.
C35_FreshSheets ==
    (\A i \in DOMAIN sheet : sheet[i].processed = "") => C35_CyclesDrainSheet

====
